---- MODULE Spec2Model ----
(***************************************************************************)
(* Process orchestration engine of openrunner (src-tauri/src/process):     *)
(* the Registry (AppState.processes), the Spawner (spawn_process), the     *)
(* Exit Watcher (watch_exit), stop / bulk shutdown (lifecycle.rs), the     *)
(* orphan reaper and the PID ledger (AppState.pid_file_path).              *)
(*                                                                         *)
(* Every spawn_process call gets a number k; the session it creates and    *)
(* the OS process it launches carry the same number (session k, pid k),    *)
(* and so does the Exit Watcher task it starts.                            *)
(***************************************************************************)
EXTENDS Integers, Sequences, FiniteSets, TLC

\* ---------------------------------------------------------------- bounds
MaxSpawns == 2          \* spawn_process calls in one run of the application
ShutdownPolls == 2      \* 100 ms polls that fit in the 5 s shutdown timeout
RestartPolls == 1       \* 100 ms polls restart_process waits for the removal
MaxWrites == 1          \* writes to the PTY of one process
MaxSaves == 3           \* save_pid calls in one run of the application
MaxPid == 3             \* pids of the process table the Stats Sampler walks

Projects == {"p1", "p2"}
Ids == 1 .. MaxSpawns
NoInst == 0

VARIABLES
    config,      \* AppState.config: project -> [ar, ptype, inter]
    db,          \* AppState.database, projects table: project -> [ar, ptype, inter]
    processes,   \* AppState.processes (the Registry): project -> ManagedProcess
    infos,       \* AppState.process_infos: project -> [status, pid]
    active,      \* AppState.active_sessions: project -> session id or NoInst
    sess,        \* sessions table: id -> [st, exit, ends]
    ledger,      \* the PID ledger file: set of recorded pids
    logfile,     \* per-project log file: "empty" or "data"
    proc,        \* the operating system's view of pid k
    call,        \* spawn_process calls in progress: id -> [pc, proj, ar, ptype, inter, origin]
    nextCall,    \* number of the next spawn_process call
    watcher,     \* Exit Watcher tasks: id -> locals of watch_exit
    timers,      \* force-kill tasks scheduled by stop_process (pids)
    events,      \* process-status-changed events per project since the last Running
    restarts,    \* restart_process background tasks: project -> polls left or -1
    sd,          \* application exit: [pc, snap, polls, termed, killed]
    platform,    \* compiled platform adapter
    reaper,      \* kill_orphaned_processes: [pc, pids, todo]
    ret,         \* result of the last stop / stdin / resize command: [op, proj, arg, res, n]
    pty,         \* PTY of a project's entry: [size, out]
    env,         \* environment resolved by start_process / restart_process
    pidfile,     \* text of the PID ledger file (digits and NL), followed by
                 \* the save_pid / remove_pid calls of LedgerSpec; the engine
                 \* actions follow the recorded pids in ledger
    stats,       \* the Stats Sampler and the counters of the ProcessInfo
                 \* entries: [pc, snap, usage]
    lock,        \* the Registry mutex and the position of each function that
                 \* takes it: [holder, pc]
    agg,         \* one call of aggregate_process_tree: its arguments and locals
    mtx,         \* the mutexes of AppState and the position of each task that
                 \* takes them: [held, pc]
    ospid,       \* the operating system's pids: [owner, st, tasks]
    rmpid        \* a remove_pid call in progress: [pc, pid, content]

vars == <<config, db, processes, infos, active, sess, ledger, logfile, proc,
          call, nextCall, watcher, timers, events, restarts, sd, platform, reaper,
          ret, pty, env, pidfile, lock, stats, agg, mtx, ospid, rmpid>>

cfgVars == <<config, db>>
shutVars == <<sd, platform, reaper>>
auxVars == <<agg, mtx, ospid, rmpid>>
ioVars == <<ret, pty, env, pidfile, lock, stats, auxVars>>

\* ---------------------------------------------------------------- helpers
\* NoWatcher holds the locals of watch_exit: its arguments, the values the
\* wait loop breaks with, the entry it removed (fin) and gOff, whether the
\* stored configuration had auto-restart switched off when the debounce
\* expired (not a local of the function).
\* ManagedProcess: inst is the pid/session of the spawning call, ms is
\* manually_stopped, inter is is_interactive.  gAr, gType record the
\* auto_restart and project_type the instance was spawned with and gStop
\* whether stop_process returned Ok for it (not fields of the struct).
NoEntry == [inst |-> NoInst, ms |-> FALSE, inter |-> FALSE, gAr |-> FALSE,
            gType |-> "Task", gStop |-> FALSE]
NoCall == [pc |-> "none", proj |-> "p1", ar |-> FALSE, ptype |-> "Task",
           inter |-> FALSE, origin |-> "none"]
DoneCall(pc, p) == [NoCall EXCEPT !.pc = pc, !.proj = p]
NoWatcher == [pc |-> "none", proj |-> "p1", ar |-> FALSE, ptype |-> "Task",
              inter |-> FALSE, ms |-> FALSE, ok |-> FALSE, pidSome |-> FALSE,
              fin |-> NoEntry, gOff |-> FALSE]
\* a watcher that goes on to re-spawn instead of returning
EndWatcherRespawning == [NoWatcher EXCEPT !.pc = "spawn"]

\* the locals of a watcher task that has returned
EndWatcher == [NoWatcher EXCEPT !.pc = "end"]
NoInfo == [status |-> "none", pid |-> NoInst]

\* the sampler sleeps; cpu_usage and memory_usage of every ProcessInfo are 0
NoStats == [pc |-> "sleep", snap |-> {}, usage |-> [p \in Projects |-> 0]]

\* aggregate_process_tree has not been called
NoAgg == [pc |-> "idle", table |-> <<>>, tree |-> <<>>, i |-> 0,
          cpu |-> 0, mem |-> 0]

\* the pids the operating system hands out
OsPids == 1 .. 2

\* no pid is in use, no process was spawned, no force-kill is scheduled
NoOsPid == [owner |-> [pid \in OsPids |-> NoInst], st |-> [i \in Ids |-> "none"],
            tasks |-> {}]

\* no remove_pid call is between its read and its write
NoRemove == [pc |-> "idle", pid |-> 0, content |-> <<>>]

\* no command has returned yet
NoRet == [op |-> "none", proj |-> "p1", arg |-> <<>>, res |-> "none", n |-> 0]

\* a PTY as openpty creates it (24 rows, 80 columns), nothing written to it;
\* also stands for the absent PTY of a piped entry
DefaultPty == [size |-> <<80, 24>>, out |-> <<>>]

\* no command has resolved an environment yet; group and project are the
\* env_vars maps of the group and of the project, merged is the map handed
\* to spawn_process
NoEnv == [pc |-> "none", group |-> <<>>, project |-> <<>>, merged |-> <<>>]
NoSession == [st |-> "none", exit |-> "none", ends |-> 0]

\* the Registry holds instance i
InRegistry(i) == \E p \in Projects : processes[p].inst = i

\* PlatformProcessManager::is_process_running
IsProcessRunning(pr, i) == pr[i] = "running"

\* ExitStatus::success of a terminated child
ExitSuccess(i) == proc[i] = "exit0"

\* PlatformProcessManager::force_kill on the OS process table
ForceKill(pr, i) == IF pr[i] = "running" THEN [pr EXCEPT ![i] = "killed"] ELSE pr

\* the exit status of a child is forgotten once its handle is gone
Forget(pr, i) == IF pr[i] \in {"exit0", "exit1", "killed"} THEN [pr EXCEPT ![i] = "dead"] ELSE pr

\* Dropping a ManagedProcess taken out of the Registry: a piped child has
\* kill_on_drop(true), a PTY child is only referenced by its pid.
DropManaged(pr, e) ==
    IF e.inst = NoInst THEN pr
    ELSE IF e.inter THEN Forget(pr, e.inst)
    ELSE Forget(ForceKill(pr, e.inst), e.inst)

\* a scheduled force-kill whose target has terminated has no effect any more
Expire(tm, pr) == {i \in tm : pr[i] = "running"}

\* an end_session that writes nothing
EndSessionIgnored(s, sid, status) == s

\* Database::end_session: UPDATE sessions SET ended_at, exit_status WHERE id
EndSession(s, sid, status) ==
    IF s[sid].st = "none" THEN s
    ELSE [s EXCEPT ![sid] = [st |-> "closed", exit |-> status,
                             ends |-> IF @.ends < 2 THEN @.ends + 1 ELSE 2]]

\* emit_status_update; the model keeps the events since the last Running
Emit(ev, p, status) ==
    [ev EXCEPT ![p] = IF status = "Running" THEN <<status>> ELSE Append(@, status)]

\* ---------------------------------------------------------------- the Registry mutex
\* The functions that lock state.processes, each as the sequence of its
\* operations in program order.  "lock" and "unlock" are the creation and the
\* drop of the MutexGuard, "map" is an operation on the HashMap or on an
\* entry in place, "wait" is try_wait / is_process_running, "signal" is
\* graceful_shutdown / force_kill, "db" a call on state.database, "pty" a
\* write or an ioctl on the PTY master, "sleep" a tokio sleep, "file" a write
\* of the PID file, "emit" an event, "task" the spawning of a task and
\* "again" the end of a loop body, from which control may return to the
\* operation numbered to.
Op(kind) == [kind |-> kind, to |-> 0]
Again(to) == [kind |-> "again", to |-> to]

Functions == {"stop_process", "kill_all_processes", "graceful_shutdown_all",
              "watch_exit", "write_to_process_stdin", "resize_pty"}

Program(f) ==
    CASE f = "stop_process" ->
           <<Op("lock"), Op("map"), Op("map"), Op("signal"), Op("task"), Op("unlock")>>
      [] f = "kill_all_processes" ->
           <<Op("lock"), Op("map"), Op("db"), Op("map"), Op("signal"), Again(2),
             Op("map"), Op("unlock"), Op("file")>>
      [] f = "graceful_shutdown_all" ->
           <<Op("lock"), Op("map"), Op("unlock"), Op("emit"), Op("signal"),
             Op("sleep"), Op("lock"), Op("wait"), Op("map"), Op("unlock"), Again(6),
             Op("signal"), Op("db"), Op("emit"),
             Op("lock"), Op("map"), Op("unlock"), Op("file")>>
      [] f = "watch_exit" ->
           <<Op("sleep"), Op("lock"), Op("map"), Op("wait"), Op("unlock"), Again(1),
             Op("sleep"), Op("lock"), Op("map"), Op("wait"), Op("map"), Op("unlock"),
             Op("file"), Op("db"), Op("emit")>>
      [] f = "write_to_process_stdin" ->
           <<Op("lock"), Op("map"), Op("pty"), Op("unlock")>>
      [] f = "resize_pty" ->
           <<Op("lock"), Op("map"), Op("pty"), Op("unlock")>>

NoLock == [holder |-> "none", pc |-> [f \in Functions |-> 1]]

\* the operation function f executes next, Op("return") at its end
NextOp(f) ==
    IF lock.pc[f] > Len(Program(f)) THEN Op("return") ELSE Program(f)[lock.pc[f]]

\* ---------------------------------------------------------------- mutexes of AppState
\* the mutexes the process engine takes, and the tasks that take them
Mutexes == {"processes", "database", "active_sessions", "process_infos"}
Tasks == {"spawn_process", "stop_process", "kill_all_processes",
          "graceful_shutdown_all", "watch_exit", "stats_sampler",
          "write_to_process_stdin", "resize_pty"}

\* m.lock().unwrap(), the guard going out of scope, the end of a loop body
Take(m) == [kind |-> "take", m |-> m, to |-> 0]
Drop(m) == [kind |-> "drop", m |-> m, to |-> 0]
Loop(to) == [kind |-> "loop", m |-> "none", to |-> to]

\* a spawn_process that creates the session while it holds active_sessions
LocksSessionsFirst(t) ==
    IF t = "spawn_process"
    THEN <<Take("active_sessions"), Take("database"), Drop("database"),
           Drop("active_sessions")>>
    ELSE <<Take("database"), Take("active_sessions"), Drop("active_sessions"),
           Drop("database")>>

\* the lock and unlock operations of each task, in program order
Locks(t) ==
    CASE t = "spawn_process" ->
           <<Take("processes"), Drop("processes"),
             Take("database"), Drop("database"),
             Take("active_sessions"), Drop("active_sessions"),
             Take("processes"), Drop("processes"),
             Take("process_infos"), Drop("process_infos")>>
      [] t = "stop_process" ->
           <<Take("processes"), Drop("processes")>>
      [] t = "kill_all_processes" ->
           <<Take("processes"),
             Take("database"), Drop("database"),
             Take("active_sessions"), Drop("active_sessions"), Loop(2),
             Drop("processes")>>
      [] t = "graceful_shutdown_all" ->
           <<Take("processes"), Drop("processes"),
             Take("processes"), Drop("processes"), Loop(3),
             Take("database"), Drop("database"),
             Take("active_sessions"), Drop("active_sessions"), Loop(6),
             Take("processes"), Drop("processes")>>
      [] t = "watch_exit" ->
           <<Take("processes"), Drop("processes"), Loop(1),
             Take("database"), Take("active_sessions"),
             Drop("active_sessions"), Drop("database"),
             Take("process_infos"), Drop("process_infos"),
             Take("database"), Drop("database"),
             Take("processes"), Drop("processes")>>
      [] t = "stats_sampler" ->
           <<Take("process_infos"), Drop("process_infos"),
             Take("process_infos"), Drop("process_infos"), Loop(1)>>
      [] t = "write_to_process_stdin" ->
           <<Take("processes"), Drop("processes")>>
      [] t = "resize_pty" ->
           <<Take("processes"), Drop("processes")>>

\* no mutex is held and every task is at its start
NoMutex == [held |-> [m \in Mutexes |-> "none"], pc |-> [t \in Tasks |-> 1]]

\* the operation task t executes next
NextLock(t) == Locks(t)[mtx.pc[t]]

\* the position after the operation; a task that has returned is started
\* again later
Advance(t) == IF mtx.pc[t] = Len(Locks(t)) THEN 1 ELSE mtx.pc[t] + 1

\* std::sync::Mutex::lock: blocks while the mutex is held, by another task
\* or by the caller itself
MutexLock(t) ==
    /\ NextLock(t).kind = "take"
    /\ mtx.held[NextLock(t).m] = "none"
    /\ mtx' = [held |-> [mtx.held EXCEPT ![NextLock(t).m] = t],
               pc |-> [mtx.pc EXCEPT ![t] = Advance(t)]]
    /\ UNCHANGED <<cfgVars, ret, pty, env, pidfile, lock, stats, agg, ospid, rmpid,
                   processes,
                   infos, active, sess, ledger, logfile, proc, call, nextCall,
                   watcher, timers, events, restarts, shutVars>>

\* the guard is dropped
MutexUnlock(t) ==
    /\ NextLock(t).kind = "drop"
    /\ mtx' = [held |-> [mtx.held EXCEPT ![NextLock(t).m] = "none"],
               pc |-> [mtx.pc EXCEPT ![t] = Advance(t)]]
    /\ UNCHANGED <<cfgVars, ret, pty, env, pidfile, lock, stats, agg, ospid, rmpid,
                   processes,
                   infos, active, sess, ledger, logfile, proc, call, nextCall,
                   watcher, timers, events, restarts, shutVars>>

\* the end of a loop body: the body runs again or the loop is left
MutexLoop(t) ==
    /\ NextLock(t).kind = "loop"
    /\ \E next \in {Advance(t), NextLock(t).to} :
          mtx' = [mtx EXCEPT !.pc[t] = next]
    /\ UNCHANGED <<cfgVars, ret, pty, env, pidfile, lock, stats, agg, ospid, rmpid,
                   processes,
                   infos, active, sess, ledger, logfile, proc, call, nextCall,
                   watcher, timers, events, restarts, shutVars>>

MutexNext ==
    \/ \E t \in Tasks : MutexLock(t)
    \/ \E t \in Tasks : MutexUnlock(t)
    \/ \E t \in Tasks : MutexLoop(t)

\* ---------------------------------------------------------------- Init
ProjectCfg == [exists : {TRUE}, ar : BOOLEAN, ptype : {"Service", "Task"}, inter : BOOLEAN]

\* a project id that is not in the configuration
NoProject == [exists |-> FALSE, ar |-> FALSE, ptype |-> "Service", inter |-> FALSE]

\* create_project stores auto_restart = (project_type == Service)
Created(c) == c.ar = (c.ptype = "Service")

InitEngine ==
    /\ processes = [p \in Projects |-> NoEntry]
    /\ infos = [p \in Projects |-> NoInfo]
    /\ active = [p \in Projects |-> NoInst]
    /\ sess = [k \in Ids |-> NoSession]
    /\ logfile = [p \in Projects |-> "empty"]
    /\ call = [k \in Ids |-> NoCall]
    /\ nextCall = 1
    /\ watcher = [k \in Ids |-> NoWatcher]
    /\ timers = {}
    /\ events = [p \in Projects |-> <<>>]
    /\ restarts = [p \in Projects |-> -1]
    /\ sd = [pc |-> "idle", snap |-> {}, polls |-> 0, termed |-> {}, killed |-> {}]
    /\ ret = NoRet
    /\ pty = [p \in Projects |-> DefaultPty]
    /\ env = NoEnv
    /\ pidfile = <<>>
    /\ lock = NoLock
    /\ stats = NoStats
    /\ agg = NoAgg
    /\ mtx = NoMutex
    /\ ospid = NoOsPid
    /\ rmpid = NoRemove

\* one project has been created; both stores hold it
InitConfig ==
    /\ \E c \in {c \in ProjectCfg : Created(c)} :
          config = [p \in Projects |-> IF p = "p1" THEN c ELSE NoProject]
    /\ db = config

Init ==
    /\ InitEngine
    /\ InitConfig
    /\ ledger = {}
    /\ proc = [k \in Ids |-> "none"]
    /\ platform = "linux"
    /\ reaper = [pc |-> "done", pids |-> {}, todo |-> {}]

\* ---------------------------------------------------------------- spawn_process
\* A caller enters spawn_process with the given arguments.
Enter(p, ar, ptype, inter, origin) ==
    /\ nextCall <= MaxSpawns
    /\ call' = [call EXCEPT ![nextCall] =
                   [pc |-> "check", proj |-> p, ar |-> ar, ptype |-> ptype,
                    inter |-> inter, origin |-> origin]]
    /\ nextCall' = nextCall + 1

\* commands::start_process: arguments come from AppState.config
StartProcess(p) ==
    /\ config[p].exists
    /\ Enter(p, config[p].ar, config[p].ptype, config[p].inter, "start")
    /\ UNCHANGED <<cfgVars, ioVars, processes, infos, active, sess, ledger, logfile,
                   proc, watcher, timers, events, restarts, shutVars>>

\* a check that never finds the entry
AlreadyRunningNever(p) == FALSE

\* spawn_process, "Check if already running"
AlreadyRunning(p) == processes[p].inst # NoInst

SpawnCheck(k) ==
    /\ call[k].pc = "check"
    /\ call' = [call EXCEPT ![k] =
                   IF AlreadyRunning(call[k].proj) THEN DoneCall("rejected", call[k].proj)
                   ELSE [@ EXCEPT !.pc = "session"]]
    /\ UNCHANGED <<cfgVars, ioVars, processes, infos, active, sess, ledger, logfile,
                   proc, nextCall, watcher, timers, events, restarts, shutVars>>

\* create_session, active_sessions.insert, truncate the log file, then
\* cmd.spawn() / slave.spawn_command() and save_pid
SpawnLaunch(k) ==
    /\ call[k].pc = "session"
    /\ sess' = [sess EXCEPT ![k] = [st |-> "open", exit |-> "none", ends |-> 0]]
    /\ active' = [active EXCEPT ![call[k].proj] = k]
    /\ logfile' = [logfile EXCEPT ![call[k].proj] = "empty"]
    /\ proc' = [proc EXCEPT ![k] = "running"]
    /\ ledger' = ledger \cup {k}
    /\ call' = [call EXCEPT ![k].pc = "insert"]
    /\ UNCHANGED <<cfgVars, ioVars, processes, infos, nextCall, watcher, timers,
                   events, restarts, shutVars>>

\* the stages at which spawn_regular_process / spawn_interactive_process
\* return SpawnError: "launch" is cmd.spawn(), openpty() or spawn_command()
\* failing, "pty" is try_clone_reader() or take_writer() failing after the
\* PTY child was launched and its pid saved
FailStages(inter) == IF inter THEN {"launch", "pty"} ELSE {"launch"}

\* a failing spawn that registers the entry before the step that fails
SpawnFailRegistered(k, stage) ==
    /\ call[k].pc = "session"
    /\ stage \in FailStages(call[k].inter)
    /\ sess' = [sess EXCEPT ![k] = [st |-> "open", exit |-> "none", ends |-> 0]]
    /\ active' = [active EXCEPT ![call[k].proj] = k]
    /\ logfile' = [logfile EXCEPT ![call[k].proj] = "empty"]
    /\ processes' = [processes EXCEPT ![call[k].proj] =
                        [inst |-> k, ms |-> FALSE, inter |-> call[k].inter,
                         gAr |-> call[k].ar, gType |-> call[k].ptype,
                         gStop |-> FALSE]]
    /\ call' = [call EXCEPT ![k] = DoneCall("failed", call[k].proj)]
    /\ UNCHANGED <<cfgVars, ioVars, infos, proc, ledger, nextCall, watcher,
                   timers, events, restarts, shutVars>>

\* spawn_process returns Err(SpawnError): create_session, active_sessions
\* .insert and the log truncation have run, the "?" after the spawn function
\* returns before the watcher is started.  The PTY child of a "pty" failure
\* is not killed when its handle is dropped.
SpawnFail(k, stage) ==
    /\ call[k].pc = "session"
    /\ stage \in FailStages(call[k].inter)
    /\ sess' = [sess EXCEPT ![k] = [st |-> "open", exit |-> "none", ends |-> 0]]
    /\ active' = [active EXCEPT ![call[k].proj] = k]
    /\ logfile' = [logfile EXCEPT ![call[k].proj] = "empty"]
    /\ proc' = IF stage = "pty" THEN [proc EXCEPT ![k] = "running"] ELSE proc
    /\ ledger' = IF stage = "pty" THEN ledger \cup {k} ELSE ledger
    /\ call' = [call EXCEPT ![k] = DoneCall("failed", call[k].proj)]
    /\ UNCHANGED <<cfgVars, ioVars, processes, infos, nextCall, watcher,
                   timers, events, restarts, shutVars>>

\* processes.insert(project_id, ManagedProcess { manually_stopped: false, .. })
SpawnInsert(k) ==
    /\ call[k].pc = "insert"
    /\ processes' = [processes EXCEPT ![call[k].proj] =
                        [inst |-> k, ms |-> FALSE, inter |-> call[k].inter,
                         gAr |-> call[k].ar, gType |-> call[k].ptype,
                         gStop |-> FALSE]]
    /\ proc' = DropManaged(proc, processes[call[k].proj])
    /\ timers' = Expire(timers, proc')
    /\ pty' = [pty EXCEPT ![call[k].proj] = DefaultPty]
    /\ call' = [call EXCEPT ![k].pc = "info"]
    /\ UNCHANGED <<cfgVars, auxVars, pidfile, lock, stats, ret, env, infos, active, sess, ledger, logfile, nextCall,
                   watcher, events, restarts, shutVars>>

\* infos.insert(project_id, ProcessInfo { status: Running, pid, cpu_usage:
\* 0.0, memory_usage: 0 }), emit
\* Running, return Ok to spawn_process, which starts the Exit Watcher with
\* the arguments of the call
SpawnInfo(k) ==
    /\ call[k].pc = "info"
    /\ infos' = [infos EXCEPT ![call[k].proj] = [status |-> "Running", pid |-> k]]
    /\ events' = Emit(events, call[k].proj, "Running")
    /\ watcher' = [watcher EXCEPT ![k] =
                      [NoWatcher EXCEPT !.pc = "poll", !.proj = call[k].proj,
                                        !.ar = call[k].ar, !.ptype = call[k].ptype,
                                        !.inter = call[k].inter]]
    /\ call' = [call EXCEPT ![k] = DoneCall("done", call[k].proj)]
    /\ stats' = [stats EXCEPT !.usage[call[k].proj] = 0]
    /\ UNCHANGED <<cfgVars, auxVars, ret, pty, env, pidfile, lock, processes, active, sess,
                   ledger, logfile, proc, nextCall, timers, restarts, shutVars>>

\* ---------------------------------------------------------------- environment
\* The child terminates on its own (or in reaction to a signal) with some status
ChildExit(i, st) ==
    /\ proc[i] = "running"
    /\ proc' = [proc EXCEPT ![i] =
                   IF InRegistry(i) \/ call[i].pc = "insert" THEN st ELSE "dead"]
    /\ timers' = Expire(timers, proc')
    /\ UNCHANGED <<cfgVars, ioVars, processes, infos, active, sess, ledger, logfile,
                   call, nextCall, watcher, events, restarts, shutVars>>

\* read_stream / the PTY reader thread append a chunk to the log file
ReadStream(p) ==
    /\ AlreadyRunning(p)
    /\ proc[processes[p].inst] = "running"
    /\ logfile[p] = "empty"
    /\ logfile' = [logfile EXCEPT ![p] = "data"]
    /\ UNCHANGED <<cfgVars, ioVars, processes, infos, active, sess, ledger, proc, call,
                   nextCall, watcher, timers, events, restarts, shutVars>>

\* ---------------------------------------------------------------- watch_exit
\* Outcomes of Child::try_wait on the piped child of instance i
TryWait(i) == IF proc[i] = "running" THEN "none" ELSE "some"

\* One 100 ms poll that ends the wait loop of a watcher: the values it
\* breaks with, or none when the loop continues.  Child::id() is None once
\* try_wait has returned the exit status.
PollBreaks(e) ==
    IF e.inter
    THEN IF e.ms
         THEN {[ms |-> TRUE, ok |-> TRUE, pidSome |-> TRUE]}
         ELSE IF ~IsProcessRunning(proc, e.inst)
              THEN {[ms |-> FALSE, ok |-> FALSE, pidSome |-> TRUE]}
              ELSE {}
    ELSE IF TryWait(e.inst) = "some"
         THEN {[ms |-> e.ms, ok |-> ExitSuccess(e.inst), pidSome |-> FALSE]}
         ELSE {}

\* the poll finds no Registry entry: "Process was already removed"
WatchGone(k) ==
    /\ watcher[k].pc = "poll"
    /\ ~AlreadyRunning(watcher[k].proj)
    /\ watcher' = [watcher EXCEPT ![k] = EndWatcher]
    /\ UNCHANGED <<cfgVars, ioVars, processes, infos, active, sess, ledger, logfile,
                   proc, call, nextCall, timers, events, restarts, shutVars>>

\* the poll detects termination (or a manual stop of a PTY process) and
\* removes the entry under the Registry lock
WatchPoll(k) ==
    /\ watcher[k].pc = "poll"
    /\ AlreadyRunning(watcher[k].proj)
    /\ \E b \in PollBreaks(processes[watcher[k].proj]) :
          /\ watcher' = [watcher EXCEPT ![k].pc = "final", ![k].ms = b.ms,
                                        ![k].ok = b.ok, ![k].pidSome = b.pidSome,
                                        ![k].fin = processes[watcher[k].proj]]
          /\ processes' = [processes EXCEPT ![watcher[k].proj] = NoEntry]
          /\ proc' = DropManaged(proc, processes[watcher[k].proj])
    /\ timers' = Expire(timers, proc')
    /\ UNCHANGED <<cfgVars, ioVars, infos, active, sess, ledger, logfile, call,
                   nextCall, events, restarts, shutVars>>

\* a watcher that reports every exit as Stopped
ExitStatusAlwaysStopped(ms, ok) == "Stopped"

\* terminal status and session classification chosen by the watcher
ExitStatusOf(ms, ok) == IF ms \/ ok THEN "Stopped" ELSE "Errored"
ExitStatusStr(ms, ok) == IF ms THEN "stopped" ELSE IF ok THEN "stopped" ELSE "errored"

\* a gate that restarts after a failure instead of after a success
RestartGateOnFailure(w) == w.ar /\ ~w.ms /\ ~w.ok /\ w.ptype = "Service"

\* the auto-restart gate evaluated on the values captured at spawn time
RestartGate(w) == w.ar /\ ~w.ms /\ w.ok /\ w.ptype = "Service"

\* ProcessInfo after "if let Some(info) = infos.get_mut(project_id)"
TerminalInfo(info, status) ==
    IF info.status = "none" THEN info ELSE [status |-> status, pid |-> NoInst]

\* "Remove the PID from the PID file" (if let Some(p) = pid), end_session and
\* sessions.remove(project_id), update the ProcessInfo (status, no pid,
\* zeroed counters), emit the terminal status, then either start the 2 s
\* debounce or return
WatchFinalize(k) ==
    /\ watcher[k].pc = "final"
    /\ ledger' = IF watcher[k].pidSome THEN ledger \ {watcher[k].fin.inst} ELSE ledger
    /\ sess' = EndSession(sess, watcher[k].fin.inst,
                          ExitStatusStr(watcher[k].ms, watcher[k].ok))
    /\ active' = [active EXCEPT ![watcher[k].proj] = NoInst]
    /\ infos' = [infos EXCEPT ![watcher[k].proj] =
                    TerminalInfo(@, ExitStatusOf(watcher[k].ms, watcher[k].ok))]
    /\ events' = Emit(events, watcher[k].proj,
                      ExitStatusOf(watcher[k].ms, watcher[k].ok))
    /\ watcher' = [watcher EXCEPT ![k] =
                      IF RestartGate(watcher[k]) THEN [@ EXCEPT !.pc = "debounce"]
                      ELSE EndWatcher]
    /\ stats' = IF infos[watcher[k].proj].status = "none" THEN stats
                ELSE [stats EXCEPT !.usage[watcher[k].proj] = 0]
    /\ UNCHANGED <<cfgVars, auxVars, ret, pty, env, pidfile, lock, processes, logfile, proc,
                   call, nextCall, timers, restarts, shutVars>>

\* after the debounce: (should_restart, current_project_type) re-read from
\* the database
StillEligible(p) == db[p].exists /\ db[p].ar /\ db[p].ptype = "Service"

\* the user switched auto-restart off in one of the two stores
SwitchedOff(p) ==
    \/ ~config[p].exists \/ ~config[p].ar \/ config[p].ptype = "Task"
    \/ ~db[p].exists \/ ~db[p].ar \/ db[p].ptype = "Task"

WatchRecheck(k) ==
    /\ watcher[k].pc = "debounce"
    /\ watcher' = [watcher EXCEPT ![k] =
                      IF StillEligible(watcher[k].proj)
                      THEN [@ EXCEPT !.pc = "runcheck",
                                     !.gOff = SwitchedOff(watcher[k].proj)]
                      ELSE EndWatcher]
    /\ UNCHANGED <<cfgVars, ioVars, processes, infos, active, sess, ledger, logfile,
                   proc, call, nextCall, timers, events, restarts, shutVars>>

\* "Check process isn't already running"
WatchRunCheck(k) ==
    /\ watcher[k].pc = "runcheck"
    /\ watcher' = [watcher EXCEPT ![k] =
                      IF AlreadyRunning(watcher[k].proj) THEN EndWatcher
                      ELSE [@ EXCEPT !.pc = "spawn"]]
    /\ UNCHANGED <<cfgVars, ioVars, processes, infos, active, sess, ledger, logfile,
                   proc, call, nextCall, timers, events, restarts, shutVars>>

\* spawn_process(.., should_restart, ProjectType::Service, interactive); the
\* watcher task ends when the call returns
WatchRespawn(k) ==
    /\ watcher[k].pc = "spawn"
    /\ Enter(watcher[k].proj, TRUE, "Service", watcher[k].inter, "auto")
    /\ watcher' = [watcher EXCEPT ![k] = EndWatcher]
    /\ UNCHANGED <<cfgVars, ioVars, processes, infos, active, sess, ledger, logfile,
                   proc, timers, events, restarts, shutVars>>

\* ---------------------------------------------------------------- stop_process
\* a stop that signals the process without marking the entry
StoppedUnmarked(e) == [e EXCEPT !.gStop = TRUE]

\* the body of stop_process on an existing entry: set the flag, send the
\* graceful signal, schedule the force-kill
Stopped(e) == [e EXCEPT !.ms = TRUE, !.gStop = TRUE]

\* Err(ProcessNotRunning) when there is no entry
StopProcess(p) ==
    /\ AlreadyRunning(p)
    /\ processes' = [processes EXCEPT ![p] = Stopped(@)]
    /\ timers' = timers \cup {processes[p].inst}
    /\ UNCHANGED <<cfgVars, ioVars, infos, active, sess, ledger, logfile, proc, call,
                   nextCall, watcher, events, restarts, shutVars>>

\* the task spawned by stop_process: sleep 5 s, force_kill(pid)
ForceKillTimer(i) ==
    /\ i \in timers
    /\ proc[i] = "running"
    /\ timers' = timers \ {i}
    /\ proc' = IF InRegistry(i) THEN ForceKill(proc, i) ELSE Forget(ForceKill(proc, i), i)
    /\ UNCHANGED <<cfgVars, ioVars, processes, infos, active, sess, ledger, logfile,
                   call, nextCall, watcher, events, restarts, shutVars>>

\* ---------------------------------------------------------------- commands and their results
\* strings a caller writes and the terminal size (cols, rows) it asks for
Data == {"a", "b"}
Sizes == {<<120, 40>>}

\* The Result a command returns, kept with its arguments; n alternates so
\* that two equal commands in a row are two different values.
Returned(op, p, arg, res) ==
    [op |-> op, proj |-> p, arg |-> arg, res |-> res, n |-> 1 - ret.n]

\* a lookup that reports every project as running
StopResultAlwaysOk(found) == "Ok"

\* processes.get_mut(project_id).ok_or_else(|| Error::ProcessNotRunning(..))?
\* followed by Ok(())
StopResult(found) == IF found THEN "Ok" ELSE "ProcessNotRunning"

\* stop_process with the Result it returns to its caller
StopProcessResult(p) ==
    /\ ret' = Returned("stop", p, <<>>, StopResult(AlreadyRunning(p)))
    /\ IF AlreadyRunning(p)
       THEN /\ processes' = [processes EXCEPT ![p] = Stopped(@)]
            /\ timers' = timers \cup {processes[p].inst}
       ELSE UNCHANGED <<processes, timers>>
    /\ UNCHANGED <<cfgVars, auxVars, pidfile, lock, stats, pty, env, infos, active, sess, ledger, logfile, proc,
                   call, nextCall, watcher, events, restarts, shutVars>>

\* a writer that drops the data
PtyWriteNothing(t, d) == t

\* pty_writer.write_all(data.as_bytes()) and flush()
PtyWrite(t, d) == [t EXCEPT !.out = Append(@, d)]

\* Results of write_to_process_stdin on entry e: the entry of an interactive
\* process always holds a writer, a piped one never; write_all can fail once
\* the child has terminated and the slave side of the PTY is closed.
WriteResults(e) ==
    IF e.inst = NoInst THEN {"ProcessNotRunning"}
    ELSE IF ~e.inter THEN {"Ok"}
    ELSE IF IsProcessRunning(proc, e.inst) THEN {"Ok"}
    ELSE {"Ok", "IoError"}

WriteToProcessStdin(p, d) ==
    /\ processes[p].inter => Len(pty[p].out) < MaxWrites
    /\ \E res \in WriteResults(processes[p]) :
          /\ ret' = Returned("write", p, <<d>>, res)
          /\ pty' = IF processes[p].inter /\ res = "Ok"
                    THEN [pty EXCEPT ![p] = PtyWrite(@, d)]
                    ELSE pty
    /\ UNCHANGED <<cfgVars, auxVars, pidfile, lock, stats, env, processes, infos, active, sess, ledger, logfile,
                   proc, call, nextCall, watcher, timers, events, restarts,
                   shutVars>>

\* a resize that also discards what was written to the terminal
PtyResizeReset(t, size) == [size |-> size, out |-> <<>>]

\* pty_master.resize(PtySize { rows, cols, .. })
PtyResize(t, size) == [t EXCEPT !.size = size]

\* Results of resize_pty on entry e; the ioctl can fail once the child has
\* terminated.
ResizeResults(e) ==
    IF e.inst = NoInst THEN {"ProcessNotRunning"}
    ELSE IF ~e.inter THEN {"Ok"}
    ELSE IF IsProcessRunning(proc, e.inst) THEN {"Ok"}
    ELSE {"Ok", "PtyError"}

ResizePty(p, size) ==
    /\ \E res \in ResizeResults(processes[p]) :
          /\ ret' = Returned("resize", p, size, res)
          /\ pty' = IF processes[p].inter /\ res = "Ok"
                    THEN [pty EXCEPT ![p] = PtyResize(@, size)]
                    ELSE pty
    /\ UNCHANGED <<cfgVars, auxVars, pidfile, lock, stats, env, processes, infos, active, sess, ledger, logfile,
                   proc, call, nextCall, watcher, timers, events, restarts,
                   shutVars>>

\* ---------------------------------------------------------------- environment variables
Keys == {"A", "B"}
Vals == {"1", "2"}

\* the values of a HashMap<String, String>
EnvMaps == UNION {[D -> Vals] : D \in SUBSET Keys}

\* an insert that keeps the value of a key already present
HashMapInsertIfAbsent(mp, k, v) ==
    [x \in DOMAIN mp \cup {k} |-> IF x \in DOMAIN mp THEN mp[x] ELSE v]

\* HashMap::insert
HashMapInsert(mp, k, v) ==
    [x \in DOMAIN mp \cup {k} |-> IF x = k THEN v ELSE mp[x]]

\* HashMap::extend(other): insert every pair of other, one key at a time
RECURSIVE ExtendKeys(_, _, _)
ExtendKeys(mp, other, ks) ==
    IF ks = {} THEN mp
    ELSE LET k == CHOOSE x \in ks : TRUE
         IN ExtendKeys(HashMapInsert(mp, k, other[k]), other, ks \ {k})

Extend(mp, other) == ExtendKeys(mp, other, DOMAIN other)

\* let mut merged_env = group.env_vars.clone();
\* merged_env.extend(project.env_vars.clone());
MergedEnv(group, project) == Extend(group, project)

\* the user edits the env vars of the group or of the project
SetGroupEnv(mp) ==
    /\ env' = [pc |-> "stored", group |-> mp, project |-> env.project, merged |-> <<>>]
    /\ UNCHANGED <<cfgVars, auxVars, pidfile, lock, stats, ret, pty, processes, infos, active, sess, ledger,
                   logfile, proc, call, nextCall, watcher, timers, events,
                   restarts, shutVars>>

SetProjectEnv(mp) ==
    /\ env' = [pc |-> "stored", group |-> env.group, project |-> mp, merged |-> <<>>]
    /\ UNCHANGED <<cfgVars, auxVars, pidfile, lock, stats, ret, pty, processes, infos, active, sess, ledger,
                   logfile, proc, call, nextCall, watcher, timers, events,
                   restarts, shutVars>>

\* commands::start_process resolves the environment from AppState.config
StartProcessEnv ==
    /\ env' = [env EXCEPT !.pc = "start", !.merged = MergedEnv(env.group, env.project)]
    /\ UNCHANGED <<cfgVars, auxVars, pidfile, lock, stats, ret, pty, processes, infos, active, sess, ledger,
                   logfile, proc, call, nextCall, watcher, timers, events,
                   restarts, shutVars>>

\* the background task of commands::restart_process resolves it from the
\* database
RestartProcessEnv ==
    /\ env' = [env EXCEPT !.pc = "restart", !.merged = MergedEnv(env.group, env.project)]
    /\ UNCHANGED <<cfgVars, auxVars, pidfile, lock, stats, ret, pty, processes, infos, active, sess, ledger,
                   logfile, proc, call, nextCall, watcher, timers, events,
                   restarts, shutVars>>

EnvNext ==
    \/ \E mp \in EnvMaps : SetGroupEnv(mp)
    \/ \E mp \in EnvMaps : SetProjectEnv(mp)
    \/ StartProcessEnv
    \/ RestartProcessEnv

\* ---------------------------------------------------------------- session recorder
\* Database::get_session: None when no row has the id, otherwise the row;
\* ended is ended_at.is_some(), exit is exit_status ("none" for NULL)
GetSession(s, sid) ==
    IF s[sid].st = "none" THEN <<>>
    ELSE <<[ended |-> s[sid].st = "closed", exit |-> s[sid].exit]>>

\* Database::create_session: INSERT a row with a fresh id and started_at
CreateSession(p) ==
    /\ nextCall <= MaxSpawns
    /\ sess' = [sess EXCEPT ![nextCall] = [st |-> "open", exit |-> "none", ends |-> 0]]
    /\ nextCall' = nextCall + 1
    /\ ret' = Returned("create_session", p, <<>>, nextCall)
    /\ UNCHANGED <<cfgVars, auxVars, pidfile, lock, stats, pty, env, processes, infos, active, ledger, logfile,
                   proc, call, watcher, timers, events, restarts, shutVars>>

\* a caller closes a session it was given
EndSessionCall(sid, status) ==
    /\ sess' = EndSession(sess, sid, status)
    /\ ret' = Returned("end_session", "p1", <<sid, status>>, "Ok")
    /\ UNCHANGED <<cfgVars, auxVars, pidfile, lock, stats, pty, env, processes, infos, active, ledger, logfile,
                   proc, call, nextCall, watcher, timers, events, restarts,
                   shutVars>>

\* a caller reads a session back
GetSessionCall(sid) ==
    /\ ret' = Returned("get_session", "p1", <<sid>>, GetSession(sess, sid))
    /\ UNCHANGED <<cfgVars, auxVars, pidfile, lock, stats, pty, env, processes, infos, active, sess, ledger,
                   logfile, proc, call, nextCall, watcher, timers, events,
                   restarts, shutVars>>

RecNext ==
    \/ \E p \in Projects : CreateSession(p)
    \/ \E sid \in Ids, status \in {"stopped", "errored"} : EndSessionCall(sid, status)
    \/ \E sid \in Ids : GetSessionCall(sid)


\* ---------------------------------------------------------------- PID ledger file
\* the line terminator in the text of the file; every other element is a
\* decimal digit
NL == -1

\* pids the operating system hands out
Pids == 1 .. 3

\* format!("{}", pid): the decimal digits of pid
RECURSIVE Digits(_)
Digits(n) == IF n < 10 THEN <<n>> ELSE Append(Digits(n \div 10), n % 10)

\* str::parse::<u32>: the number a line of digits denotes, -1 for Err (an
\* empty line; lines of ten digits or more, which may exceed u32, do not
\* arise from MaxSaves one-digit pids)
RECURSIVE DigitsValue(_)
DigitsValue(line) ==
    IF line = <<>> THEN 0
    ELSE 10 * DigitsValue(SubSeq(line, 1, Len(line) - 1)) + line[Len(line)]

ParseU32(line) ==
    IF line = <<>> \/ Len(line) > 9 THEN -1
    ELSE DigitsValue(line)

\* str::lines / BufRead::lines: the text split at NL, a final line does not
\* need a terminator
RECURSIVE LinesFrom(_, _)
LinesFrom(text, cur) ==
    IF text = <<>> THEN IF cur = <<>> THEN <<>> ELSE <<cur>>
    ELSE IF Head(text) = NL THEN <<cur>> \o LinesFrom(Tail(text), <<>>)
    ELSE LinesFrom(Tail(text), Append(cur, Head(text)))

Lines(text) == LinesFrom(text, <<>>)

\* [String]::join("\n")
RECURSIVE Join(_)
Join(ls) ==
    IF ls = <<>> THEN <<>>
    ELSE IF Len(ls) = 1 THEN ls[1]
    ELSE ls[1] \o <<NL>> \o Join(Tail(ls))

RECURSIVE Filter(_, _)
Filter(ls, pid) ==
    IF ls = <<>> THEN <<>>
    ELSE IF ParseU32(Head(ls)) # pid THEN <<Head(ls)>> \o Filter(Tail(ls), pid)
    ELSE Filter(Tail(ls), pid)

\* AppState::save_pid: open for append, writeln!(file, "{}", pid)
SavePid(text, pid) == text \o Digits(pid) \o <<NL>>

\* AppState::remove_pid: keep the lines that do not parse to pid and write
\* them back joined by "\n"
RemovePid(text, pid) == Join(Filter(Lines(text), pid))

\* AppState::read_stored_pids: the lines that parse, in order
RECURSIVE ParsedLines(_)
ParsedLines(ls) ==
    IF ls = <<>> THEN <<>>
    ELSE IF ParseU32(Head(ls)) # -1 THEN <<ParseU32(Head(ls))>> \o ParsedLines(Tail(ls))
    ELSE ParsedLines(Tail(ls))

ReadStoredPids(text) == ParsedLines(Lines(text))

\* a spawn succeeds: the OS hands out a pid no live process has and the
\* spawn function saves it
SpawnSavesPid(pid) ==
    /\ nextCall <= MaxSaves
    /\ pid \notin ledger
    /\ pidfile' = SavePid(pidfile, pid)
    /\ ledger' = ledger \cup {pid}
    /\ nextCall' = nextCall + 1
    /\ UNCHANGED <<cfgVars, auxVars, ret, pty, env, lock, stats, processes, infos, active, sess,
                   logfile, proc, call, watcher, timers, events, restarts, shutVars>>

\* an Exit Watcher observes the exit of a spawned process and prunes its pid
WatcherRemovesPid(pid) ==
    /\ pid \in ledger
    /\ pidfile' = RemovePid(pidfile, pid)
    /\ ledger' = ledger \ {pid}
    /\ UNCHANGED <<cfgVars, auxVars, ret, pty, env, lock, stats, processes, infos, active, sess,
                   logfile, proc, call, nextCall, watcher, timers, events, restarts,
                   shutVars>>

\* AppState::remove_pid, first half: read_to_string(pid_file_path)
RemovePidRead(pid) ==
    /\ rmpid.pc = "idle"
    /\ pid \in ledger
    /\ rmpid' = [pc |-> "write", pid |-> pid, content |-> pidfile]
    /\ UNCHANGED <<cfgVars, ret, pty, env, pidfile, lock, stats, agg, mtx, ospid,
                   processes, infos, active, sess, ledger, logfile, proc, call,
                   nextCall, watcher, timers, events, restarts, shutVars>>

\* AppState::remove_pid, second half: fs::write(pid_file_path, the lines of
\* the content read that do not parse to pid, joined)
RemovePidWrite ==
    /\ rmpid.pc = "write"
    /\ pidfile' = RemovePid(rmpid.content, rmpid.pid)
    /\ ledger' = ledger \ {rmpid.pid}
    /\ rmpid' = NoRemove
    /\ UNCHANGED <<cfgVars, ret, pty, env, lock, stats, agg, mtx, ospid, processes,
                   infos, active, sess, logfile, proc, call, nextCall, watcher,
                   timers, events, restarts, shutVars>>

\* spawns saving pids while a watcher removes one
RaceNext ==
    \/ \E pid \in Pids : SpawnSavesPid(pid)
    \/ \E pid \in Pids : RemovePidRead(pid)
    \/ RemovePidWrite

LedgerNext ==
    \/ \E pid \in Pids : SpawnSavesPid(pid)
    \/ \E pid \in Pids : WatcherRemovesPid(pid)


\* ---------------------------------------------------------------- steps under the Registry mutex
\* state.processes.lock().unwrap(): blocks while another function holds it
Acquire(f) ==
    /\ NextOp(f).kind = "lock"
    /\ lock.holder = "none"
    /\ lock' = [holder |-> f, pc |-> [lock.pc EXCEPT ![f] = @ + 1]]
    /\ UNCHANGED <<cfgVars, auxVars, ret, pty, env, pidfile, stats, processes, infos, active, sess,
                   ledger, logfile, proc, call, nextCall, watcher, timers, events,
                   restarts, shutVars>>

\* the guard goes out of scope
Release(f) ==
    /\ NextOp(f).kind = "unlock"
    /\ lock' = [holder |-> "none", pc |-> [lock.pc EXCEPT ![f] = @ + 1]]
    /\ UNCHANGED <<cfgVars, auxVars, ret, pty, env, pidfile, stats, processes, infos, active, sess,
                   ledger, logfile, proc, call, nextCall, watcher, timers, events,
                   restarts, shutVars>>

\* any other operation; the end of a loop body continues or starts the body
\* again
Perform(f) ==
    /\ NextOp(f).kind \notin {"lock", "unlock", "return"}
    /\ \E next \in IF NextOp(f).kind = "again"
                   THEN {lock.pc[f] + 1, NextOp(f).to} ELSE {lock.pc[f] + 1} :
          lock' = [lock EXCEPT !.pc[f] = next]
    /\ UNCHANGED <<cfgVars, auxVars, ret, pty, env, pidfile, stats, processes, infos, active, sess,
                   ledger, logfile, proc, call, nextCall, watcher, timers, events,
                   restarts, shutVars>>

LockNext ==
    \/ \E f \in Functions : Acquire(f)
    \/ \E f \in Functions : Release(f)
    \/ \E f \in Functions : Perform(f)


\* ---------------------------------------------------------------- stats collector
\* a nonzero cpu / memory reading
Sample == 1

\* a write that does not look at the status
StillRunningUnchecked(info) == TRUE

\* "if existing.status == ProcessStatus::Running" at write time
StillRunning(info) == info.status = "Running"

\* "Collect active PIDs": the projects whose ProcessInfo is Running with a
\* pid; the loop sleeps again when there is none
SamplerCollect ==
    /\ stats.pc = "sleep"
    /\ \E p \in Projects : infos[p].status = "Running" /\ infos[p].pid # NoInst
    /\ stats' = [stats EXCEPT
                    !.pc = "write",
                    !.snap = {[proj |-> p, pid |-> infos[p].pid] :
                                 p \in {q \in Projects : infos[q].status = "Running"
                                                         /\ infos[q].pid # NoInst}}]
    /\ UNCHANGED <<cfgVars, auxVars, ret, pty, env, pidfile, lock, processes, infos, active,
                   sess, ledger, logfile, proc, call, nextCall, watcher, timers,
                   events, restarts, shutVars>>

\* "Update state and emit": the readings of the collected projects are
\* written into the entries that exist and are Running
SamplerWrite ==
    /\ stats.pc = "write"
    /\ stats' = [pc |-> "sleep", snap |-> {},
                 usage |-> [p \in Projects |->
                               IF /\ \E s \in stats.snap : s.proj = p
                                  /\ infos[p].status # "none"
                                  /\ StillRunning(infos[p])
                               THEN Sample ELSE stats.usage[p]]]
    /\ UNCHANGED <<cfgVars, auxVars, ret, pty, env, pidfile, lock, processes, infos, active,
                   sess, ledger, logfile, proc, call, nextCall, watcher, timers,
                   events, restarts, shutVars>>


\* ---------------------------------------------------------------- restart_process
\* commands::restart_process: stop (error ignored), then a background task
RestartProcess(p) ==
    /\ restarts[p] = -1
    /\ nextCall <= MaxSpawns
    /\ restarts' = [restarts EXCEPT ![p] = RestartPolls]
    /\ IF AlreadyRunning(p)
       THEN /\ processes' = [processes EXCEPT ![p] = Stopped(@)]
            /\ timers' = timers \cup {processes[p].inst}
       ELSE UNCHANGED <<processes, timers>>
    /\ UNCHANGED <<cfgVars, ioVars, infos, active, sess, ledger, logfile, proc, call,
                   nextCall, watcher, events, shutVars>>

\* one 100 ms poll of the background task that still finds the entry
RestartWait(p) ==
    /\ restarts[p] > 0
    /\ AlreadyRunning(p)
    /\ restarts' = [restarts EXCEPT ![p] = @ - 1]
    /\ UNCHANGED <<cfgVars, ioVars, processes, infos, active, sess, ledger, logfile,
                   proc, call, nextCall, watcher, timers, events, shutVars>>

\* the entry is gone or the polls are used up: read the project from the
\* database and call spawn_process
RestartSpawn(p) ==
    /\ restarts[p] >= 0
    /\ db[p].exists
    /\ ~AlreadyRunning(p) \/ restarts[p] = 0
    /\ Enter(p, db[p].ar, db[p].ptype, db[p].inter, "restart")
    /\ restarts' = [restarts EXCEPT ![p] = -1]
    /\ UNCHANGED <<cfgVars, ioVars, processes, infos, active, sess, ledger, logfile,
                   proc, watcher, timers, events, shutVars>>

\* ---------------------------------------------------------------- configuration
\* commands::update_project with updates = {autoRestart: b}: writes
\* AppState.config (and config.db through save_config)
UpdateProject(p, b) ==
    /\ config[p].exists
    /\ config[p].ar # b
    /\ config' = [config EXCEPT ![p].ar = b]
    /\ UNCHANGED <<db, ioVars, processes, infos, active, sess, ledger, logfile, proc,
                   call, nextCall, watcher, timers, events, restarts, shutVars>>

\* commands::update_project with updates = {interactive: b}; command, cwd
\* and envVars are written to AppState.config by the same function in the
\* same way, and start_process reads all of them from there
UpdateInteractive(p, b) ==
    /\ config[p].exists
    /\ config[p].inter # b
    /\ config' = [config EXCEPT ![p].inter = b]
    /\ UNCHANGED <<db, ioVars, processes, infos, active, sess, ledger, logfile, proc,
                   call, nextCall, watcher, timers, events, restarts, shutVars>>

\* commands::convert_multiple_projects -> Database::convert_projects:
\* UPDATE projects SET project_type, auto_restart = (type == Service)
ConvertProjects(p, t) ==
    /\ db[p].exists
    /\ db[p].ptype # t
    /\ db' = [db EXCEPT ![p].ptype = t, ![p].ar = (t = "Service")]
    /\ UNCHANGED <<config, ioVars, processes, infos, active, sess, ledger, logfile,
                   proc, call, nextCall, watcher, timers, events, restarts,
                   shutVars>>

\* Database::convert_projects for one project: UPDATE projects SET
\* project_type = t, auto_restart = (t == Service)
ConvertedRow(c, t) == [c EXCEPT !.ptype = t, !.ar = (t = "Service")]

\* "Update local group": the project of the group read before the update
\* gets the new type, and auto_restart = false only "when converting to Task"
ConvertedGroup(c, t) ==
    [c EXCEPT !.ptype = t, !.ar = IF t = "Task" THEN FALSE ELSE @]

\* commands::convert_multiple_projects(group, [p], t) with its result: the
\* group is read from the database, the row is updated, the updated copy of
\* the group is returned
ConvertMultipleProjects(p, t) ==
    /\ db[p].exists
    /\ db' = [db EXCEPT ![p] = ConvertedRow(@, t)]
    /\ ret' = Returned("convert_multiple_projects", p, <<ConvertedGroup(db[p], t)>>, "Ok")
    /\ UNCHANGED <<config, auxVars, pty, env, pidfile, lock, stats, processes, infos,
                   active, sess, ledger, logfile, proc, call, nextCall, watcher,
                   timers, events, restarts, shutVars>>

\* commands::delete_project for a project of the configuration, first
\* half: stop_process (its error ignored), and a 500 ms sleep when it
\* returned Ok
DeleteProjectStop(p) ==
    /\ config[p].exists
    /\ ~(ret.op = "delete_project" /\ ret.res = "removing")
    /\ ret' = Returned("delete_project", p, <<>>, "removing")
    /\ IF AlreadyRunning(p)
       THEN /\ processes' = [processes EXCEPT ![p] = Stopped(@)]
            /\ timers' = timers \cup {processes[p].inst}
       ELSE UNCHANGED <<processes, timers>>
    /\ UNCHANGED <<cfgVars, auxVars, pidfile, lock, stats, pty, env, infos, active,
                   sess, ledger, logfile, proc, call, nextCall, watcher, events,
                   restarts, shutVars>>

\* second half: the project is removed from AppState.config, which is saved
\* to config.db by save_config; AppState.database is not written
DeleteProjectRemove ==
    /\ ret.op = "delete_project"
    /\ ret.res = "removing"
    /\ config' = [config EXCEPT ![ret.proj] = NoProject]
    /\ ret' = [ret EXCEPT !.res = IF config[ret.proj].exists THEN "Ok"
                                  ELSE "ProjectNotFound"]
    /\ UNCHANGED <<db, auxVars, pidfile, lock, stats, pty, env, processes, infos,
                   active, sess, ledger, logfile, proc, call, nextCall, watcher,
                   timers, events, restarts, shutVars>>

\* ---------------------------------------------------------------- tasks
\* the steps of the spawn_process calls and of the Exit Watchers in progress
SpawnSteps ==
    \/ \E k \in Ids : SpawnCheck(k)
    \/ \E k \in Ids : SpawnLaunch(k)
    \/ \E k \in Ids : SpawnInsert(k)
    \/ \E k \in Ids : SpawnInfo(k)

WatchSteps ==
    \/ \E k \in Ids : WatchGone(k)
    \/ \E k \in Ids : WatchPoll(k)
    \/ \E k \in Ids : WatchFinalize(k)
    \/ \E k \in Ids : WatchRecheck(k)
    \/ \E k \in Ids : WatchRunCheck(k)
    \/ \E k \in Ids : WatchRespawn(k)

\* ---------------------------------------------------------------- graceful_shutdown_all
\* entries of the Registry
Entries == {processes[p] : p \in {q \in Projects : AlreadyRunning(q)}}

\* dropping every ManagedProcess of a set of entries
DropAll(pr, es) ==
    [i \in DOMAIN pr |->
        IF \E e \in es : e.inst = i
        THEN DropManaged(pr, CHOOSE e \in es : e.inst = i)[i]
        ELSE pr[i]]

\* RunEvent::ExitRequested with a non-empty Registry: prevent the exit and
\* spawn the shutdown task
ExitRequested ==
    /\ sd.pc = "idle"
    /\ \E p \in Projects : AlreadyRunning(p)
    /\ sd' = [sd EXCEPT !.pc = "snapshot"]
    /\ UNCHANGED <<cfgVars, ioVars, processes, infos, active, sess, ledger, logfile,
                   proc, call, nextCall, watcher, timers, events, restarts,
                   platform, reaper>>

\* a snapshot that leaves the entries unmarked
MarkedNever(e) == e

\* managed.manually_stopped = true
Marked(e) == [e EXCEPT !.ms = TRUE]

\* "Collect all running process info": mark every entry manually stopped and
\* copy (project, pid, session, is_interactive); return if there is none
SdSnapshot ==
    /\ sd.pc = "snapshot"
    /\ processes' = [p \in Projects |->
                        IF AlreadyRunning(p) THEN Marked(processes[p])
                        ELSE processes[p]]
    /\ sd' = [sd EXCEPT
                 !.snap = {[proj |-> p, inst |-> processes[p].inst] :
                              p \in {q \in Projects : AlreadyRunning(q)}},
                 !.pc = IF \E p \in Projects : AlreadyRunning(p)
                        THEN "announce" ELSE "returned"]
    /\ UNCHANGED <<cfgVars, ioVars, infos, active, sess, ledger, logfile, proc, call,
                   nextCall, watcher, timers, events, restarts, platform, reaper>>

\* emit Stopping for every snapshotted project, then platform.graceful_shutdown
\* for every snapshotted pid
SdAnnounce ==
    /\ sd.pc = "announce"
    /\ events' = [p \in Projects |->
                     IF \E s \in sd.snap : s.proj = p
                     THEN Emit(events, p, "Stopping")[p] ELSE events[p]]
    /\ sd' = [sd EXCEPT !.termed = {s.inst : s \in sd.snap}, !.pc = "poll"]
    /\ UNCHANGED <<cfgVars, ioVars, processes, infos, active, sess, ledger, logfile,
                   proc, call, nextCall, watcher, timers, restarts, platform,
                   reaper>>

\* the entry's process is found terminated by the shutdown poll
Terminated(e) ==
    IF e.inter THEN ~IsProcessRunning(proc, e.inst) ELSE TryWait(e.inst) = "some"

\* a loop that only ends when every process has exited
PollEndsOnExitOnly(allDone, n) == allDone

\* "if all_exited || start.elapsed() >= timeout { break; }" after the n-th
\* 100 ms sleep
PollEnds(allDone, n) == allDone \/ n >= ShutdownPolls

\* one iteration of the wait loop: remove the entries whose process has
\* terminated, then break or sleep again
SdPoll ==
    /\ sd.pc = "poll"
    /\ LET gone == {e \in Entries : Terminated(e)}
       IN /\ processes' = [p \in Projects |->
                              IF processes[p] \in gone THEN NoEntry ELSE processes[p]]
          /\ proc' = DropAll(proc, gone)
          /\ sd' = [sd EXCEPT !.polls = @ + 1,
                              !.pc = IF PollEnds(Entries = gone, sd.polls + 1)
                                     THEN "kill" ELSE "poll"]
    /\ timers' = Expire(timers, proc')
    /\ UNCHANGED <<cfgVars, ioVars, infos, active, sess, ledger, logfile, call,
                   nextCall, watcher, events, restarts, platform, reaper>>

\* "Force kill any remaining processes" of the snapshot
SdKill ==
    /\ sd.pc = "kill"
    /\ proc' = [i \in DOMAIN proc |->
                   IF (\E s \in sd.snap : s.inst = i) /\ IsProcessRunning(proc, i)
                   THEN IF InRegistry(i) THEN ForceKill(proc, i)[i]
                        ELSE Forget(ForceKill(proc, i), i)[i]
                   ELSE proc[i]]
    /\ timers' = Expire(timers, proc')
    /\ sd' = [sd EXCEPT !.pc = "finish"]
    /\ UNCHANGED <<cfgVars, ioVars, processes, infos, active, sess, ledger, logfile,
                   call, nextCall, watcher, events, restarts, platform, reaper>>

\* end_session(sid, "stopped"), active_sessions.remove and emit Stopped for
\* every snapshotted process
SdFinish ==
    /\ sd.pc = "finish"
    /\ sess' = [k \in DOMAIN sess |->
                   IF \E s \in sd.snap : s.inst = k
                   THEN EndSession(sess, k, "stopped")[k] ELSE sess[k]]
    /\ active' = [p \in Projects |->
                     IF \E s \in sd.snap : s.proj = p THEN NoInst ELSE active[p]]
    /\ events' = [p \in Projects |->
                     IF \E s \in sd.snap : s.proj = p
                     THEN Emit(events, p, "Stopped")[p] ELSE events[p]]
    /\ sd' = [sd EXCEPT !.pc = "clear"]
    /\ UNCHANGED <<cfgVars, ioVars, processes, infos, ledger, logfile, proc, call,
                   nextCall, watcher, timers, restarts, platform, reaper>>

\* processes.clear()
SdClear ==
    /\ sd.pc = "clear"
    /\ processes' = [p \in Projects |-> NoEntry]
    /\ proc' = DropAll(proc, Entries)
    /\ timers' = Expire(timers, proc')
    /\ sd' = [sd EXCEPT !.pc = "clearpid"]
    /\ UNCHANGED <<cfgVars, ioVars, infos, active, sess, ledger, logfile, call,
                   nextCall, watcher, events, restarts, platform, reaper>>

\* state.clear_pid_file(), and the function returns
SdClearPid ==
    /\ sd.pc = "clearpid"
    /\ ledger' = {}
    /\ sd' = [sd EXCEPT !.pc = "returned"]
    /\ UNCHANGED <<cfgVars, ioVars, processes, infos, active, sess, logfile, proc,
                   call, nextCall, watcher, timers, events, restarts, platform,
                   reaper>>

\* RunEvent::ExitRequested with an empty Registry: the exit is not prevented
ExitUnprevented ==
    /\ sd.pc = "idle"
    /\ \A p \in Projects : ~AlreadyRunning(p)
    /\ sd' = [sd EXCEPT !.pc = "exiting"]
    /\ UNCHANGED <<cfgVars, ioVars, processes, infos, active, sess, ledger, logfile,
                   proc, call, nextCall, watcher, timers, events, restarts,
                   platform, reaper>>

\* entries dropped without a force-kill
KillEntriesDropOnly(pr, es) == DropAll(pr, es)

\* platform.force_kill(pid) for every entry, then processes.clear()
KillEntries(pr, es) ==
    DropAll([i \in DOMAIN pr |->
                IF \E e \in es : e.inst = i THEN ForceKill(pr, i)[i] ELSE pr[i]], es)

\* RunEvent::Exit -> kill_all_processes, under the Registry lock: for every
\* entry set manually_stopped, end_session(sid, "stopped"), remove the active
\* session, force-kill; then clear the Registry and the PID file.  It runs
\* after handle.exit(0) of the shutdown task or after an unprevented exit
\* request.
KillAllProcesses ==
    /\ sd.pc \in {"returned", "exiting"}
    /\ sess' = [k \in DOMAIN sess |->
                   IF \E e \in Entries : e.inst = k
                   THEN EndSession(sess, k, "stopped")[k] ELSE sess[k]]
    /\ active' = [p \in Projects |-> IF AlreadyRunning(p) THEN NoInst ELSE active[p]]
    /\ proc' = KillEntries(proc, Entries)
    /\ timers' = Expire(timers, proc')
    /\ processes' = [p \in Projects |-> NoEntry]
    /\ ledger' = {}
    /\ sd' = [sd EXCEPT !.pc = "exited", !.killed = {e.inst : e \in Entries}]
    /\ UNCHANGED <<cfgVars, ioVars, infos, logfile, call, nextCall, watcher,
                   events, restarts, platform, reaper>>

SdSteps ==
    \/ SdSnapshot
    \/ SdAnnounce
    \/ SdPoll
    \/ SdKill
    \/ SdFinish
    \/ SdClear
    \/ SdClearPid

\* The state in which the user closes the window: the configured projects
\* (p1, or p1 and p2) have been started, one after the other, and are
\* running; InstOf gives the number of the call that started each.
InstOf(started, p) == Cardinality({q \in started : q = "p1" \/ q = p})

ShutdownInit ==
    /\ platform = "linux"
    /\ reaper = [pc |-> "done", pids |-> {}, todo |-> {}]
    /\ timers = {}
    /\ restarts = [p \in Projects |-> -1]
    /\ sd = [pc |-> "idle", snap |-> {}, polls |-> 0, termed |-> {}, killed |-> {}]
    /\ ret = NoRet
    /\ pty = [p \in Projects |-> DefaultPty]
    /\ env = NoEnv
    /\ pidfile = <<>>
    /\ lock = NoLock
    /\ stats = NoStats
    /\ agg = NoAgg
    /\ mtx = NoMutex
    /\ ospid = NoOsPid
    /\ rmpid = NoRemove
    /\ \E started \in {{"p1"}, Projects} :
          LET inst(p) == IF p \in started THEN InstOf(started, p) ELSE NoInst
              projOf(k) == CHOOSE p \in started : inst(p) = k
              n == Cardinality(started)
          IN /\ config \in [Projects -> {c \in ProjectCfg : Created(c)} \cup {NoProject}]
             /\ \A p \in Projects : config[p].exists <=> p \in started
             /\ db = config
             /\ processes = [p \in Projects |->
                                IF p \in started
                                THEN [inst |-> inst(p), ms |-> FALSE,
                                      inter |-> config[p].inter,
                                      gAr |-> config[p].ar,
                                      gType |-> config[p].ptype, gStop |-> FALSE]
                                ELSE NoEntry]
             /\ infos = [p \in Projects |->
                            IF p \in started
                            THEN [status |-> "Running", pid |-> inst(p)] ELSE NoInfo]
             /\ active = [p \in Projects |-> inst(p)]
             /\ events = [p \in Projects |->
                             IF p \in started THEN <<"Running">> ELSE <<>>]
             /\ logfile = [p \in Projects |-> "empty"]
             /\ sess = [k \in Ids |->
                           IF k <= n THEN [st |-> "open", exit |-> "none", ends |-> 0]
                           ELSE NoSession]
             /\ proc = [k \in Ids |-> IF k <= n THEN "running" ELSE "none"]
             /\ ledger = 1 .. n
             /\ call = [k \in Ids |->
                           IF k <= n THEN DoneCall("done", projOf(k)) ELSE NoCall]
             /\ watcher = [k \in Ids |->
                              IF k <= n
                              THEN [NoWatcher EXCEPT
                                       !.pc = "poll", !.proj = projOf(k),
                                       !.ar = config[projOf(k)].ar,
                                       !.ptype = config[projOf(k)].ptype,
                                       !.inter = config[projOf(k)].inter]
                              ELSE NoWatcher]
             /\ nextCall = n + 1

ShutdownNext ==
    \/ ExitRequested
    \/ SdSteps
    \/ \E p \in Projects : StartProcess(p)
    \/ SpawnSteps
    \/ WatchSteps
    \/ \E i \in Ids, st \in {"exit0", "exit1"} : ChildExit(i, st)

ShutdownSpec == ShutdownInit /\ [][ShutdownNext]_vars

\* the shutdown followed by the final cleanup of RunEvent::Exit
ExitNext ==
    \/ ShutdownNext
    \/ ExitUnprevented
    \/ KillAllProcesses

ExitSpec == ShutdownInit /\ [][ExitNext]_vars

\* ---------------------------------------------------------------- kill_orphaned_processes
Platforms == {"linux", "macos", "windows"}

\* PlatformProcessManager::kill_orphaned_processes for one recorded pid:
\* killpg(pgid, 0) == 0 then killpg(pgid, SIGKILL) on Linux and macOS, an
\* empty body on Windows
KillOrphan(plat, pr, i) == IF plat = "windows" THEN pr ELSE ForceKill(pr, i)

\* let pids = state.read_stored_pids()
ReaperRead ==
    /\ reaper.pc = "start"
    /\ reaper' = [pc |-> "kill", pids |-> ledger, todo |-> ledger]
    /\ UNCHANGED <<cfgVars, ioVars, processes, infos, active, sess, ledger, logfile,
                   proc, call, nextCall, watcher, timers, events, restarts,
                   sd, platform>>

\* one iteration of "for pgid in pgids"
ReaperKill(i) ==
    /\ reaper.pc = "kill"
    /\ i \in reaper.todo
    /\ proc' = KillOrphan(platform, proc, i)
    /\ reaper' = [reaper EXCEPT !.todo = @ \ {i}]
    /\ UNCHANGED <<cfgVars, ioVars, processes, infos, active, sess, ledger, logfile,
                   call, nextCall, watcher, timers, events, restarts, sd,
                   platform>>

\* state.clear_pid_file()
ReaperClear ==
    /\ reaper.pc = "kill"
    /\ reaper.todo = {}
    /\ ledger' = {}
    /\ reaper' = [reaper EXCEPT !.pc = "done"]
    /\ UNCHANGED <<cfgVars, ioVars, processes, infos, active, sess, logfile, proc,
                   call, nextCall, watcher, timers, events, restarts, sd,
                   platform>>

\* the application starts with whatever ledger and processes the previous
\* run left behind
ReaperInit ==
    /\ InitEngine
    /\ InitConfig
    /\ ledger \in SUBSET Ids
    /\ proc \in [Ids -> {"running", "dead"}]
    /\ platform \in Platforms
    /\ reaper = [pc |-> "start", pids |-> {}, todo |-> {}]

ReaperNext ==
    \/ ReaperRead
    \/ \E i \in Ids : ReaperKill(i)
    \/ ReaperClear

ReaperSpec == ReaperInit /\ [][ReaperNext]_vars

\* ---------------------------------------------------------------- specification
Next ==
    \/ \E p \in Projects : StartProcess(p)
    \/ SpawnSteps
    \/ WatchSteps
    \/ \E i \in Ids, st \in {"exit0", "exit1"} : ChildExit(i, st)
    \/ \E p \in Projects : ReadStream(p)
    \/ \E p \in Projects : StopProcess(p)
    \/ \E i \in Ids : ForceKillTimer(i)

Spec == Init /\ [][Next]_vars

\* the engine together with the commands that edit the stored projects
CfgNext ==
    \/ Next
    \/ \E p \in Projects, b \in BOOLEAN : UpdateProject(p, b)
    \/ \E p \in Projects, t \in {"Service", "Task"} : ConvertProjects(p, t)

CfgSpec == Init /\ [][CfgNext]_vars

\* the engine together with convert_multiple_projects and its result
ConvertNext ==
    \/ Next
    \/ \E p \in Projects, t \in {"Service", "Task"} : ConvertMultipleProjects(p, t)

ConvertSpec == Init /\ [][ConvertNext]_vars

\* the tasks of the engine taking and dropping the mutexes of AppState
MutexInit == Init /\ config["p1"].ptype = "Service" /\ ~config["p1"].inter

MutexSpec == MutexInit /\ [][MutexNext]_vars

\* save_pid and remove_pid running concurrently on the PID ledger
RaceSpec == Init /\ [][RaceNext]_vars

\* the engine together with delete_project
DeleteNext ==
    \/ Next
    \/ \E p \in Projects : DeleteProjectStop(p)
    \/ DeleteProjectRemove

DeleteSpec == Init /\ [][DeleteNext]_vars

\* the engine on a machine where launching a child or setting up its PTY
\* can fail
FailNext ==
    \/ Next
    \/ \E k \in Ids, stage \in {"launch", "pty"} : SpawnFail(k, stage)

FailSpec == Init /\ [][FailNext]_vars

\* The commands on processes that are already running: the configured Task
\* projects (p1, or p1 and p2) have been started; the user stops them, types
\* into them and resizes their terminals while they run and after they exit.
CmdInit ==
    /\ ShutdownInit
    /\ \A p \in Projects : config[p].exists => config[p].ptype = "Task"

CmdNext ==
    \/ \E p \in Projects : StopProcessResult(p)
    \/ \E p \in Projects, d \in Data : WriteToProcessStdin(p, d)
    \/ \E p \in Projects, size \in Sizes : ResizePty(p, size)
    \/ \E i \in Ids, st \in {"exit0", "exit1"} : ChildExit(i, st)
    \/ \E k \in Ids : WatchPoll(k)
    \/ \E k \in Ids : WatchFinalize(k)
    \/ \E i \in Ids : ForceKillTimer(i)

CmdSpec == CmdInit /\ [][CmdNext]_vars

\* Every path that signals a managed process: stop_process with its
\* force-kill task, the shutdown at exit and the final kill_all_processes,
\* next to the spawns and the Exit Watchers of Task projects.
SigNext ==
    \/ \E p \in Projects : StopProcess(p)
    \/ \E i \in Ids : ForceKillTimer(i)
    \/ ExitRequested
    \/ SdSteps
    \/ ExitUnprevented
    \/ KillAllProcesses
    \/ \E p \in Projects : StartProcess(p)
    \/ \E k \in Ids : SpawnCheck(k)
    \/ \E k \in Ids : SpawnLaunch(k)
    \/ \E k \in Ids : SpawnInsert(k)
    \/ \E k \in Ids : SpawnInfo(k)
    \/ \E i \in Ids, st \in {"exit0", "exit1"} : ChildExit(i, st)
    \/ \E k \in Ids : WatchGone(k)
    \/ \E k \in Ids : WatchPoll(k)
    \/ \E k \in Ids : WatchFinalize(k)

\* one Task project has been started and is running
SigInit ==
    /\ CmdInit
    /\ ~config["p2"].exists

SigSpec == SigInit /\ [][SigNext]_vars

\* the PID ledger file under spawns and watcher-observed exits
LedgerSpec == Init /\ [][LedgerNext]_vars

\* the engine while the user edits the launch parameters of a project
ArgNext ==
    \/ Next
    \/ \E p \in Projects, b \in BOOLEAN : UpdateInteractive(p, b)

ArgSpec == Init /\ [][ArgNext]_vars

\* the functions that take the Registry mutex, running concurrently
LockSpec == Init /\ [][LockNext]_vars

\* the session recorder driven by arbitrary callers
RecSpec == Init /\ [][RecNext]_vars

\* the environment start_process and restart_process resolve for the stored
\* env vars of a group and a project
EnvSpec == Init /\ [][EnvNext]_vars

\* the engine left alone: no stop request and no change of the stored
\* projects.  Every step of a spawn_process call and of an Exit Watcher is a
\* step of a task on the async runtime, which runs each spawned task until
\* it completes.
LiveNext ==
    \/ \E p \in Projects : StartProcess(p)
    \/ SpawnSteps
    \/ WatchSteps
    \/ \E i \in Ids, st \in {"exit0", "exit1"} : ChildExit(i, st)

LiveFair ==
    \A k \in Ids :
        /\ WF_vars(SpawnCheck(k) \/ SpawnLaunch(k) \/ SpawnInsert(k) \/ SpawnInfo(k))
        /\ WF_vars(WatchGone(k) \/ WatchPoll(k) \/ WatchFinalize(k))
        /\ WF_vars(WatchRecheck(k) \/ WatchRunCheck(k) \/ WatchRespawn(k))

LiveSpec == Init /\ [][LiveNext]_vars /\ LiveFair

\* the engine next to the Stats Sampler
StatsNext ==
    \/ LiveNext
    \/ SamplerCollect
    \/ SamplerWrite

StatsSpec == Init /\ [][StatsNext]_vars

\* the engine with stop requests; the force-kill task of stop_process is a
\* task on the async runtime like the spawns and the watchers
StopLiveNext ==
    \/ LiveNext
    \/ \E p \in Projects : StopProcess(p)
    \/ \E i \in Ids : ForceKillTimer(i)

StopLiveSpec ==
    /\ Init
    /\ [][StopLiveNext]_vars
    /\ LiveFair
    /\ \A i \in Ids : WF_vars(ForceKillTimer(i))

\* ---------------------------------------------------------------- aggregate_process_tree
\* the operating system's process table as sysinfo reports it: every pid
\* that has an entry has a parent pid (0: none) and, on Linux, may be a
\* thread of another leader (Tgid differs from Pid in /proc/[pid]/status)
TreePids == 1 .. MaxPid
NoProc == [present |-> FALSE, parent |-> 0, thread |-> FALSE]
ProcEntries ==
    {NoProc} \cup [present : {TRUE}, parent : 0 .. MaxPid, thread : BOOLEAN]
Tables == [TreePids -> ProcEntries]

\* p.cpu_usage() and the memory reading of pid p (distinct powers of two, so
\* that a sum tells which pids went into it), and the logical CPUs
CpuUsage(p) == 2 ^ p
Memory(p) == 2 ^ p
NumCpus == 2

\* the pids of a sequence
Elements(s) == {s[n] : n \in DOMAIN s}

\* a walk that takes every child again
ContainsNever(tree, pid) == FALSE

\* tree_pids.contains(child_pid)
Contains(tree, pid) == pid \in Elements(tree)

\* the walk counts memory of "!is_thread(pid)" under cfg(target_os =
\* "linux") and of every process on the other platforms
CountsMemory(os, table, pid) == os # "linux" \/ ~table[pid].thread

\* the orders in which the iteration over sys.processes() (a HashMap) can
\* yield the pids of S
RECURSIVE Orders(_)
Orders(S) ==
    IF S = {} THEN {<<>>}
    ELSE UNION {{<<c>> \o rest : rest \in Orders(S \ {c})} : c \in S}

\* aggregate_process_tree(sys, root_pid, num_cpus, _) is called:
\* tree_pids = vec![root_pid], i = 0 (positions count from 1 here)
AggregateStart ==
    /\ agg.pc = "idle"
    /\ \E table \in Tables, root_pid \in TreePids :
          agg' = [pc |-> "loop", table |-> table, tree |-> <<root_pid>>,
                  i |-> 1, cpu |-> 0, mem |-> 0]
    /\ UNCHANGED <<cfgVars, ret, pty, env, pidfile, lock, stats, mtx, ospid, rmpid,
                   processes,
                   infos, active, sess, ledger, logfile, proc, call, nextCall,
                   watcher, timers, events, restarts, shutVars>>

\* one turn of "while i < tree_pids.len()": add the readings of
\* tree_pids[i] when the table has it, push its children that are not in
\* tree_pids yet, i += 1
AggregateVisit ==
    /\ agg.pc = "loop"
    /\ agg.i <= Len(agg.tree)
    /\ LET parent_pid == agg.tree[agg.i]
           has == agg.table[parent_pid].present
           children == {c \in TreePids : /\ agg.table[c].present
                                         /\ agg.table[c].parent = parent_pid
                                         /\ ~Contains(agg.tree, c)}
       IN \E order \in Orders(children) :
             agg' = [agg EXCEPT
                        !.cpu = IF has THEN @ + CpuUsage(parent_pid) ELSE @,
                        !.mem = IF has /\ CountsMemory(platform, agg.table, parent_pid)
                                THEN @ + Memory(parent_pid) ELSE @,
                        !.tree = @ \o order,
                        !.i = @ + 1]
    /\ UNCHANGED <<cfgVars, ret, pty, env, pidfile, lock, stats, mtx, ospid, rmpid,
                   processes,
                   infos, active, sess, ledger, logfile, proc, call, nextCall,
                   watcher, timers, events, restarts, shutVars>>

\* the loop ends: (total_cpu / num_cpus, total_mem) is returned
AggregateReturn ==
    /\ agg.pc = "loop"
    /\ agg.i > Len(agg.tree)
    /\ agg' = [agg EXCEPT !.pc = "done", !.cpu = @ \div NumCpus]
    /\ UNCHANGED <<cfgVars, ret, pty, env, pidfile, lock, stats, mtx, ospid, rmpid,
                   processes,
                   infos, active, sess, ledger, logfile, proc, call, nextCall,
                   watcher, timers, events, restarts, shutVars>>

AggNext ==
    \/ AggregateStart
    \/ AggregateVisit
    \/ AggregateReturn

\* the sampler runs on every platform the application is built for
AggInit ==
    /\ InitEngine
    /\ config = [p \in Projects |-> NoProject]
    /\ db = config
    /\ ledger = {}
    /\ proc = [k \in Ids |-> "none"]
    /\ platform \in Platforms
    /\ reaper = [pc |-> "done", pids |-> {}, todo |-> {}]

AggSpec == AggInit /\ [][AggNext]_vars

\* restart_process on a machine where p1 is running: the command, its
\* background task, the force-kill task of its stop, the spawns and the
\* watchers are tasks on the async runtime
RestartInit == ShutdownInit /\ ~config["p2"].exists

RestartNext ==
    \/ \E p \in Projects : RestartProcess(p)
    \/ \E p \in Projects : RestartWait(p)
    \/ \E p \in Projects : RestartSpawn(p)
    \/ \E i \in Ids : ForceKillTimer(i)
    \/ SpawnSteps
    \/ \E k \in Ids : WatchPoll(k)
    \/ \E k \in Ids : WatchFinalize(k)
    \/ \E k \in Ids : WatchRecheck(k)
    \/ \E k \in Ids : WatchRunCheck(k)
    \/ \E k \in Ids : WatchRespawn(k)
    \/ \E i \in Ids, st \in {"exit0", "exit1"} : ChildExit(i, st)

RestartSpec ==
    /\ RestartInit
    /\ [][RestartNext]_vars
    /\ LiveFair
    /\ \A i \in Ids : WF_vars(ForceKillTimer(i))
    /\ \A p \in Projects : WF_vars(RestartWait(p) \/ RestartSpawn(p))

\* ---------------------------------------------------------------- pids and the force-kill task
\* the pid of instance i while the operating system has it
PidOf(i) == CHOOSE pid \in OsPids : ospid.owner[pid] = i

\* Command::spawn for instance i: the operating system hands out a pid that
\* no process has (configure_command makes it the process group id too)
OsSpawn(i, pid) ==
    /\ ospid.st[i] = "none"
    /\ \A j \in Ids : j < i => ospid.st[j] # "none"
    /\ ospid.owner[pid] = NoInst
    /\ ospid' = [ospid EXCEPT !.owner[pid] = i, !.st[i] = "running"]
    /\ UNCHANGED <<cfgVars, ret, pty, env, pidfile, lock, stats, agg, mtx, rmpid,
                   processes, infos, active, sess, ledger, logfile, proc, call,
                   nextCall, watcher, timers, events, restarts, shutVars>>

\* the process of instance i terminates; it keeps its pid until it is reaped
OsExit(i) ==
    /\ ospid.st[i] = "running"
    /\ ospid' = [ospid EXCEPT !.st[i] = "exited"]
    /\ UNCHANGED <<cfgVars, ret, pty, env, pidfile, lock, stats, agg, mtx, rmpid,
                   processes, infos, active, sess, ledger, logfile, proc, call,
                   nextCall, watcher, timers, events, restarts, shutVars>>

\* the watcher's try_wait reaps the child and the entry is removed: the pid
\* is free again
OsReap(i) ==
    /\ ospid.st[i] = "exited"
    /\ ospid' = [ospid EXCEPT !.owner[PidOf(i)] = NoInst, !.st[i] = "removed"]
    /\ UNCHANGED <<cfgVars, ret, pty, env, pidfile, lock, stats, agg, mtx, rmpid,
                   processes, infos, active, sess, ledger, logfile, proc, call,
                   nextCall, watcher, timers, events, restarts, shutVars>>

\* stop_process on the entry of instance i: graceful signal, and a task that
\* sleeps 5 s and calls force_kill(pid) with the pid it captured (the
\* instance is kept with the task, the code keeps the pid only)
OsStop(i) ==
    /\ ospid.st[i] \in {"running", "exited"}
    /\ \A t \in ospid.tasks : t.inst # i
    /\ ospid' = [ospid EXCEPT !.tasks = @ \cup {[pid |-> PidOf(i), inst |-> i]}]
    /\ UNCHANGED <<cfgVars, ret, pty, env, pidfile, lock, stats, agg, mtx, rmpid,
                   processes, infos, active, sess, ledger, logfile, proc, call,
                   nextCall, watcher, timers, events, restarts, shutVars>>

\* LinuxProcessManager::force_kill: killpg(pid, SIGKILL) hits whatever
\* process group has that id now
Killpg(st, owner, t) ==
    IF owner[t.pid] # NoInst /\ st[owner[t.pid]] = "running"
    THEN [st EXCEPT ![owner[t.pid]] = "exited"] ELSE st

\* the task of stop_process wakes up after its 5 s
OsForceKill(t) ==
    /\ t \in ospid.tasks
    /\ ospid' = [ospid EXCEPT !.tasks = @ \ {t},
                              !.st = Killpg(ospid.st, ospid.owner, t)]
    /\ UNCHANGED <<cfgVars, ret, pty, env, pidfile, lock, stats, agg, mtx, rmpid,
                   processes, infos, active, sess, ledger, logfile, proc, call,
                   nextCall, watcher, timers, events, restarts, shutVars>>

OsNext ==
    \/ \E i \in Ids, pid \in OsPids : OsSpawn(i, pid)
    \/ \E i \in Ids : OsExit(i)
    \/ \E i \in Ids : OsReap(i)
    \/ \E i \in Ids : OsStop(i)
    \/ \E t \in [pid : OsPids, inst : Ids] : OsForceKill(t)

OsSpec == Init /\ [][OsNext]_vars

\* ---------------------------------------------------------------- claims
\* live children an engine call launched for project p
LiveChildren(p) ==
    {i \in Ids : call[i].pc # "none" /\ call[i].proj = p /\ proc[i] = "running"}

\* C1: at any instant at most one spawned child of a project is alive, under
\* any interleaving of concurrent spawn_process calls for that project.
OneRunPerProject == \A p \in Projects : Cardinality(LiveChildren(p)) <= 1

\* the step in which spawn_process call k leaves its "already running" check
LeavesCheck(k) == call[k].pc = "check" /\ call'[k].pc # "check"

\* C2: spawn_process on a project that has a Registry entry returns
\* ProcessAlreadyRunning and leaves the entry, the active-session mapping, the
\* ProcessInfo, the ledger, the log file and the sessions unchanged, and
\* starts no Exit Watcher.
RejectedSpawnChangesNothing ==
    [][\A k \in Ids :
          (LeavesCheck(k) /\ processes[call[k].proj].inst # NoInst)
          => /\ call'[k].pc = "rejected"
             /\ UNCHANGED <<processes, active, infos, ledger, logfile, sess,
                            proc, watcher, events, timers>>]_vars

\* C2 witness: a call was rejected while the running entry is still there
RejectedWhileRunning ==
    \E k \in Ids : /\ call[k].pc = "rejected"
                   /\ processes[call[k].proj].inst # NoInst
                   /\ proc[processes[call[k].proj].inst] = "running"

\* the step in which watcher k finalizes the exit it detected
Finalizes(k) == watcher[k].pc = "final" /\ watcher'[k].pc # "final"

\* C3: when the Exit Watcher finalizes a process for which stop_process
\* returned Ok, the ProcessInfo becomes Stopped and the session is closed as
\* "stopped", whatever the exit code of the child.
StopYieldsStopped ==
    [][\A k \in Ids :
          (Finalizes(k) /\ watcher[k].fin.gStop)
          => /\ infos'[watcher[k].proj].status = "Stopped"
             /\ sess'[watcher[k].fin.inst].exit = "stopped"]_vars

\* C3 witness: a stopped piped process whose exit status was a failure is
\* about to be finalized
StoppedWithFailure ==
    \E k \in Ids : /\ watcher[k].pc = "final"
                   /\ watcher[k].fin.gStop
                   /\ ~watcher[k].fin.inter
                   /\ ~watcher[k].ok

\* C10: when the watcher reports Stopped for a process that stop_process
\* stopped, a Stopping status was reported before it and the ledger no longer
\* contains the pid.
StopGoesThroughStopping ==
    [][\A k \in Ids :
          (Finalizes(k) /\ watcher[k].fin.gStop)
          => /\ \E j \in DOMAIN events[watcher[k].proj] :
                    events[watcher[k].proj][j] = "Stopping"
             /\ watcher[k].fin.inst \notin ledger']_vars

\* C7: once kill_orphaned_processes has run, no pid that was recorded in the
\* ledger is still alive and the ledger is empty.
OrphansReaped ==
    reaper.pc = "done" =>
        /\ ledger = {}
        /\ \A i \in reaper.pids : proc[i] # "running"

\* C5: a watcher that is about to call spawn_process for an auto-restart
\* detected a successful exit of an entry that was not manually stopped and
\* that was spawned with auto_restart = true and type Service.
RespawnOnlyThroughGate ==
    \A k \in Ids :
        watcher[k].pc = "spawn"
        => /\ watcher[k].ok
           /\ ~watcher[k].fin.ms
           /\ watcher[k].fin.gAr
           /\ watcher[k].fin.gType = "Service"

\* C6: a pending auto-restart goes on to spawn only if, when its debounce
\* expired, the stored project still had auto_restart = true and type Service.
SwitchedOffPreventsRestart ==
    [][\A k \in Ids :
          (watcher[k].pc = "runcheck" /\ watcher'[k].pc = "spawn")
          => ~watcher[k].gOff]_vars

\* instance i of project p is a Service with auto-restart, spawned with
\* auto_restart = true, and has exited with success without a stop request
CleanServiceExit(p, i) ==
    /\ processes[p].inst = i
    /\ proc[i] = "exit0"
    /\ ~processes[p].ms
    /\ processes[p].gAr /\ processes[p].gType = "Service"
    /\ StillEligible(p) /\ ~SwitchedOff(p)

\* a newer instance of p is registered and reported Running (or the run has
\* used up its MaxSpawns calls of spawn_process)
Respawned(p, i) ==
    \/ /\ processes[p].inst \notin {NoInst, i}
       /\ infos[p].status = "Running"
    \/ nextCall > MaxSpawns

SnapPids == {s.inst : s \in sd.snap}

\* C8: graceful_shutdown_all signals every process of its snapshot, its wait
\* loop never sleeps more than ShutdownPolls times and goes on only while
\* time is left, and once the force-kill pass is over no snapshotted process
\* is running.
ShutdownBounded ==
    /\ sd.polls <= ShutdownPolls
    /\ sd.pc = "poll" => sd.polls < ShutdownPolls
    /\ sd.pc \in {"poll", "kill", "finish", "clear", "clearpid"} => sd.termed = SnapPids
    /\ sd.pc \in {"finish", "clear", "clearpid"} =>
          \A i \in SnapPids : proc[i] # "running"

\* C8 witness: the wait loop of a shutdown of two processes ran into the
\* timeout while a snapshotted process was still running
TimedOutWithStraggler ==
    /\ sd.pc = "kill"
    /\ sd.polls = ShutdownPolls
    /\ Cardinality(sd.snap) = 2
    /\ \E i \in SnapPids : proc[i] = "running"

\* the kept status history of p shows Stopping before Stopped
StoppingThenStopped(p) ==
    \E i, j \in DOMAIN events[p] :
        i < j /\ events[p][i] = "Stopping" /\ events[p][j] = "Stopped"

\* a newer instance of the project reported Running, which restarts the kept
\* status history
NewerRunning(s) ==
    \E k \in Ids : k > s.inst /\ call[k].pc = "done" /\ call[k].proj = s.proj

\* C9: in the step in which graceful_shutdown_all returns, the Registry and
\* the ledger are empty, every snapshotted session is closed as "stopped",
\* no snapshotted project has an active session and each was reported
\* Stopping before Stopped.
ShutdownLeavesNothing ==
    [][(sd.pc = "clearpid" /\ sd'.pc = "returned")
       => /\ \A p \in Projects : processes'[p].inst = NoInst
          /\ ledger' = {}
          /\ \A s \in sd.snap :
                /\ sess'[s.inst].st = "closed"
                /\ sess'[s.inst].exit = "stopped"
                /\ active'[s.proj] = NoInst
                /\ StoppingThenStopped(s.proj) \/ NewerRunning(s)]_vars

\* the step in which spawn_process call k returns SpawnError
Fails(k) == call[k].pc = "session" /\ call'[k].pc = "failed"

\* C11: a spawn_process call that returns SpawnError creates no Registry
\* entry, leaves the ProcessInfo unchanged, emits no event and starts no
\* Exit Watcher.
FailedSpawnRegistersNothing ==
    [][\A k \in Ids : Fails(k) => UNCHANGED <<processes, infos, events, watcher>>]_vars

\* C11 witness: a call failed after its PTY child was launched
FailedAfterLaunch == \E k \in Ids : call[k].pc = "failed" /\ k \in ledger

\* C12: when a spawn_process call returns SpawnError, its session is not
\* left open, the project has no active session and the pid of the attempt
\* is not in the ledger.
FailedSpawnLeavesNothing ==
    [][\A k \in Ids :
          Fails(k) => /\ sess'[k].st # "open"
                      /\ active'[call[k].proj] = NoInst
                      /\ k \notin ledger']_vars

\* C13: a closed session never receives another end_session call and its
\* end timestamp and classification are never written again.
SessionClosedOnce ==
    [][\A k \in Ids : sess[k].st = "closed" => sess'[k] = sess[k]]_vars

\* the step in which the wait loop of watcher k breaks
Breaks(k) == watcher[k].pc = "poll" /\ watcher'[k].pc = "final"

\* the watcher finalizes with the status and the classification that belong
\* to the exit_success it broke with
ClassifiedAs(k) ==
    /\ infos'[watcher[k].proj].status = IF watcher[k].ok THEN "Stopped" ELSE "Errored"
    /\ sess'[watcher[k].fin.inst].exit = IF watcher[k].ok THEN "stopped" ELSE "errored"

StatusSteps ==
    {<<"none", "Running">>, <<"Running", "Stopping">>, <<"Running", "Stopped">>,
     <<"Running", "Errored">>, <<"Stopping", "Stopped">>,
     <<"Stopped", "Running">>, <<"Errored", "Running">>}

\* the step in which a spawn_process call for p records the new instance
SpawnSucceeds(p) ==
    \E k \in Ids : call[k].pc = "info" /\ call[k].proj = p /\ call'[k].pc = "done"

\* C15: ProcessInfo.status changes only along the allowed transitions, and
\* becomes Running only in the step of a successful spawn.
StatusTransitions ==
    [][\A p \in Projects :
          infos'[p].status # infos[p].status
          => /\ <<infos[p].status, infos'[p].status>> \in StatusSteps
             /\ infos'[p].status = "Running" => SpawnSucceeds(p)]_vars

Returns(op, p) == ret'.n # ret.n /\ ret'.op = op /\ ret'.proj = p

\* C17: stop_process on a project without a Registry entry returns
\* ProcessNotRunning, sends no signal, schedules no force-kill and leaves the
\* Registry, the ProcessInfo, the sessions and the ledger unchanged; on an
\* existing entry it returns Ok without waiting for the process to exit,
\* having set manually_stopped, sent the graceful signal and scheduled the
\* force-kill.
StopReturns ==
    [][\A p \in Projects : Returns("stop", p) =>
          IF ~AlreadyRunning(p)
          THEN /\ ret'.res = "ProcessNotRunning"
               /\ UNCHANGED <<processes, infos, sess, active, ledger, timers, proc>>
          ELSE /\ ret'.res = "Ok"
               /\ processes'[p].ms
               /\ processes'[p].gStop
               /\ processes'[p].inst \in timers'
               /\ UNCHANGED <<infos, sess, active, ledger, proc>>]_vars

\* a stop of a missing project was refused while another project, stopped
\* earlier, is still running with its force-kill pending
StopRefusedAndAccepted ==
    /\ ret.op = "stop"
    /\ ret.res = "ProcessNotRunning"
    /\ \E q \in Projects :
          /\ processes[q].gStop
          /\ proc[processes[q].inst] = "running"
          /\ processes[q].inst \in timers

\* C18: write_to_process_stdin returns ProcessNotRunning when the project
\* has no Registry entry, succeeds without writing anything when the entry
\* has no PTY writer, and otherwise writes the data to the PTY writer; it
\* never changes the entry's manually_stopped flag, session id or pid.
StdinWrites ==
    [][\A p \in Projects : Returns("write", p) =>
          /\ processes' = processes
          /\ IF ~AlreadyRunning(p)
             THEN ret'.res = "ProcessNotRunning" /\ pty' = pty
             ELSE IF ~processes[p].inter
             THEN ret'.res = "Ok" /\ pty' = pty
             ELSE \/ /\ ret'.res = "Ok"
                     /\ pty' = [pty EXCEPT ![p].out = Append(@, ret'.arg[1])]
                  \/ /\ ret'.res = "IoError"
                     /\ ~IsProcessRunning(proc, processes[p].inst)]_vars

\* the last command wrote its data to the PTY of an interactive process
WroteToPty ==
    /\ ret.op = "write"
    /\ ret.res = "Ok"
    /\ AlreadyRunning(ret.proj)
    /\ processes[ret.proj].inter
    /\ pty[ret.proj].out = ret.arg

\* C19: resize_pty changes only the terminal size of the PTY: it returns
\* ProcessNotRunning when the project has no Registry entry, returns Ok
\* without effect when the entry is not a PTY session, and always leaves the
\* Registry entries, the ProcessInfo, the sessions and the ledger unchanged.
ResizeChangesOnlySize ==
    [][\A p \in Projects : Returns("resize", p) =>
          /\ UNCHANGED <<processes, infos, sess, active, ledger, proc, timers>>
          /\ IF ~AlreadyRunning(p)
             THEN ret'.res = "ProcessNotRunning" /\ pty' = pty
             ELSE IF ~processes[p].inter
             THEN ret'.res = "Ok" /\ pty' = pty
             ELSE \/ /\ ret'.res = "Ok"
                     /\ pty' = [pty EXCEPT ![p].size = ret'.arg]
                  \/ /\ ret'.res = "PtyError"
                     /\ pty' = pty]_vars

\* the last command resized a PTY that data had been written to
ResizedAfterWrite ==
    /\ ret.op = "resize"
    /\ ret.res = "Ok"
    /\ AlreadyRunning(ret.proj)
    /\ processes[ret.proj].inter
    /\ pty[ret.proj].size = ret.arg
    /\ pty[ret.proj].out # <<>>

\* C20: the environment start_process and restart_process pass to the
\* Spawner is the group's env vars overridden by the project's: every key of
\* the merged map has the project's value when the project defines the key
\* and the group's value otherwise, and the map has no other keys.
ProjectEnvOverridesGroup ==
    env.pc \in {"start", "restart"} =>
        /\ DOMAIN env.merged = DOMAIN env.group \cup DOMAIN env.project
        /\ \A k \in DOMAIN env.merged :
              env.merged[k] = IF k \in DOMAIN env.project THEN env.project[k]
                              ELSE env.group[k]

\* an environment was resolved for a key the group and the project set to
\* different values and a key only the group sets
CollisionResolved ==
    /\ env.pc \in {"start", "restart"}
    /\ \E k \in DOMAIN env.group \cap DOMAIN env.project : env.group[k] # env.project[k]
    /\ DOMAIN env.group \ DOMAIN env.project # {}

\* the step in which a recorder call returns
Called(op) == ret'.n # ret.n /\ ret'.op = op

\* C21: a session returned by create_session exists with no end timestamp
\* until end_session is called on it, and after end_session(sid, status)
\* get_session returns that session with ended_at set and exit_status equal
\* to the status passed.
SessionLifecycle ==
    [][/\ Called("create_session") =>
             GetSession(sess', ret'.res) = <<[ended |-> FALSE, exit |-> "none"]>>
       /\ \A k \in Ids :
             /\ (GetSession(sess, k) # <<>> /\ ~GetSession(sess, k)[1].ended
                 /\ ~(Called("end_session") /\ ret'.arg[1] = k))
                => GetSession(sess', k) = GetSession(sess, k)
             /\ (Called("end_session") /\ ret'.arg[1] = k /\ GetSession(sess, k) # <<>>)
                => GetSession(sess', k) = <<[ended |-> TRUE, exit |-> ret'.arg[2]]>>]_vars

\* a session was read back after it was ended a second time with another
\* status
EndedSessionRead ==
    /\ ret.op = "get_session"
    /\ ret.res # <<>>
    /\ ret.res[1].ended
    /\ sess[ret.arg[1]].ends = 2

\* a graceful or force signal was sent to instance i by stop_process, by its
\* force-kill task or by the shutdown
Signalled(i) ==
    \/ i \in timers
    \/ i \in sd.termed
    \/ proc[i] = "killed"
    \/ \E p \in Projects : processes[p].inst = i /\ processes[p].gStop

RemovedOnlyWhenDead ==
    [][\A k \in Ids :
          Breaks(k) => ~IsProcessRunning(proc, processes[watcher[k].proj].inst)]_vars

\* the numbers read_stored_pids returns
StoredPids == {ReadStoredPids(pidfile)[i] : i \in DOMAIN ReadStoredPids(pidfile)}

\* C24: after any sequence of save_pid and remove_pid calls, read_stored_pids
\* returns exactly the pids of the processes that were spawned and whose exit
\* has not been observed: each on its own line, parsed back as the same
\* number, and no other number.
LedgerHoldsLivePids ==
    /\ StoredPids = ledger
    /\ Len(ReadStoredPids(pidfile)) = Cardinality(ledger)

\* watcher k takes a step at a poll that finds no Registry entry
FindsNoEntry(k) ==
    /\ watcher[k].pc = "poll"
    /\ ~AlreadyRunning(watcher[k].proj)
    /\ watcher'[k] # watcher[k]

\* C25: an Exit Watcher that finds no Registry entry for its project at a
\* poll returns without any further effect: it closes no session, leaves the
\* PID ledger, the active-session mapping and the ProcessInfo alone, emits no
\* event and never attempts an auto-restart.
GoneWatcherIsSilent ==
    [][\A k \in Ids :
          /\ FindsNoEntry(k) =>
                /\ watcher'[k].pc = "end"
                /\ UNCHANGED <<sess, ledger, active, infos, events, processes,
                               call, nextCall, proc>>
          /\ watcher[k].pc = "end" => watcher'[k].pc = "end"]_vars

\* a watcher has returned while the ProcessInfo of its process still says
\* Running: it did not finalize the exit
WatcherReturnedSilently ==
    \E k \in Ids, p \in Projects :
        /\ watcher[k].pc = "end"
        /\ infos[p] = [status |-> "Running", pid |-> k]

\* C26: when the Exit Watcher finalizes an exit it removes the pid of the
\* process from the PID ledger, closes the session, clears the project's
\* active-session mapping, sets the ProcessInfo to the terminal status with
\* no pid and emits one status event; the ProcessInfo keeps a terminal status
\* while no spawn registers a new Running.
FinalizeCleansUp ==
    [][\A k \in Ids :
          /\ Finalizes(k) =>
                /\ watcher[k].fin.inst \notin ledger'
                /\ sess'[watcher[k].fin.inst].st = "closed"
                /\ active'[watcher[k].proj] = NoInst
                /\ infos[watcher[k].proj].status # "none" =>
                      /\ infos'[watcher[k].proj].status \in {"Stopped", "Errored"}
                      /\ infos'[watcher[k].proj].pid = NoInst
                /\ Len(events'[watcher[k].proj]) = Len(events[watcher[k].proj]) + 1
          /\ \A p \in Projects :
                (infos[p].status \in {"Stopped", "Errored"} /\ ~SpawnSucceeds(p))
                => infos'[p].status \in {"Stopped", "Errored"}]_vars

\* C27: no function performs I/O or sleeps while it holds the Registry
\* mutex: under the lock there are only operations on the map, never a
\* database call, a signal delivery, a PTY write or a sleep.
NoIoUnderLock ==
    \A f \in Functions :
        lock.holder = f => NextOp(f).kind \notin {"db", "signal", "pty", "sleep"}

\* stop_process returned Ok for instance i, which is in the Registry
StopAccepted(i) == \E p \in Projects : processes[p].inst = i /\ processes[p].gStop

\* C28: after stop_process returned Ok for a running process the project
\* eventually reaches a terminal state even if the child ignores the graceful
\* signal: the force-kill fires, the Exit Watcher observes the exit, removes
\* the Registry entry and sets the status to Stopped.
StopEventuallyStopped ==
    \A i \in Ids :
        StopAccepted(i) ~> (~InRegistry(i) /\ infos[call[i].proj].status = "Stopped")

\* C29: an auto-restart re-invokes spawn_process with the launch parameters
\* captured when the exited instance was spawned (the interactive flag stands
\* for command, working directory, environment and group id, which travel
\* with it), whatever the stored project says by then: a watcher about to
\* call spawn_process holds the parameters of the instance whose exit it
\* finalized.
RespawnWithCapturedArguments ==
    \A k \in Ids :
        watcher[k].pc = "spawn" => watcher[k].inter = watcher[k].fin.inter

\* C30: the Stats Sampler samples only projects whose ProcessInfo is Running
\* with a known pid and writes only the counters of entries that are still
\* Running at write time: it never changes a status or a pid, never creates
\* an entry and never overwrites the zeroed counters of a Stopped or Errored
\* entry.
SamplerWritesOnlyRunning ==
    [][/\ (stats.pc = "sleep" /\ stats'.pc = "write") =>
             /\ \A s \in stats'.snap :
                   infos[s.proj].status = "Running" /\ infos[s.proj].pid = s.pid
             /\ UNCHANGED <<infos, processes, sess, active, ledger>>
             /\ stats'.usage = stats.usage
       /\ (stats.pc = "write" /\ stats'.pc = "sleep") =>
             /\ UNCHANGED <<infos, processes, sess, active, ledger>>
             /\ \A p \in Projects :
                   stats'.usage[p] # stats.usage[p] =>
                      /\ infos[p].status = "Running"
                      /\ \E s \in stats.snap : s.proj = p
       /\ \A p \in Projects :
             (infos'[p].status \in {"Stopped", "Errored"}) => stats'.usage[p] = 0]_vars

\* the sampler is about to write the reading of a project that stopped
\* after it was collected, and whose counters were zeroed after an earlier
\* reading
SampledProjectStopped ==
    /\ stats.pc = "write"
    /\ \E s \in stats.snap :
          /\ infos[s.proj].status \in {"Stopped", "Errored"}
          /\ stats.usage[s.proj] = 0

\* the pids that have the root among their ancestors, the root included
RECURSIVE Reachable(_, _)
Reachable(table, S) ==
    LET more == S \cup {c \in TreePids : table[c].present /\ table[c].parent \in S}
    IN IF more = S THEN S ELSE Reachable(table, more)

\* the sum of the function f over a set of pids
RECURSIVE SumOver(_, _)
SumOver(S, f) ==
    IF S = {} THEN 0
    ELSE LET p == CHOOSE q \in S : TRUE IN f[p] + SumOver(S \ {p}, f)

\* the processes the walk of the running call has to count
Counted == {p \in Reachable(agg.table, {agg.tree[1]}) : agg.table[p].present}

\* C31: aggregate_process_tree terminates on any process table and sums CPU
\* over exactly the processes reachable from the root pid by parent links,
\* each counted once (also with cycles of parent links); memory is summed
\* over the same set, except that on Linux threads contribute no memory.
\* The loop ends after at most MaxPid + 1 turns: every turn advances i by
\* one, and tree_pids never holds a pid twice, so it never gets longer than
\* the process table plus the root.
AggregateSumsTree ==
    /\ [](agg.pc # "idle" =>
            /\ Cardinality(Elements(agg.tree)) = Len(agg.tree)
            /\ agg.i <= Len(agg.tree) + 1)
    /\ [][agg.pc = "loop" =>
             /\ agg'.pc = "done" \/ agg'.i = agg.i + 1
             /\ agg'.table = agg.table]_vars
    /\ [](agg.pc = "done" =>
            /\ agg.cpu = SumOver(Counted, [p \in TreePids |-> CpuUsage(p)]) \div NumCpus
            /\ agg.mem = SumOver({p \in Counted :
                                     ~(platform = "linux" /\ agg.table[p].thread)},
                                 [p \in TreePids |-> Memory(p)]))

\* the walk returned on a table whose parent links form a cycle through the
\* root, with a thread among the counted processes
CycleWalked ==
    /\ agg.pc = "done"
    /\ platform = "linux"
    /\ Cardinality(Counted) = MaxPid
    /\ \E p \in Counted : agg.table[p].thread
    /\ agg.table[agg.tree[1]].parent \in Counted \ {agg.tree[1]}

\* C32: after convert_multiple_projects the auto_restart persisted for the
\* converted project equals the one in the returned group: false when it
\* was converted to Task, the project's previous value when it was converted
\* to Service.
ConvertPersistsReturned ==
    [][\A p \in Projects :
          (ret' # ret /\ ret'.op = "convert_multiple_projects" /\ ret'.proj = p) =>
             /\ db'[p].ar = ret'.arg[1].ar
             /\ db'[p].ar = IF db'[p].ptype = "Task" THEN FALSE ELSE db[p].ar]_vars

\* task t waits for a mutex that is held
Blocked(t) == NextLock(t).kind = "take" /\ mtx.held[NextLock(t).m] # "none"

\* the mutexes task t holds
HeldBy(t) == {m \in Mutexes : mtx.held[m] = t}

\* task t is about to take mutex b while it holds mutex a
TakesWhileHolding(t, a, b) ==
    NextLock(t).kind = "take" /\ NextLock(t).m = b /\ a \in HeldBy(t)

\* C33: no interleaving of the tasks deadlocks on the mutexes of AppState:
\* in every state some task can take its next step, no task takes a mutex it
\* holds, and two mutexes are never taken in opposite orders by tasks that
\* each hold one of them.
NoMutexDeadlock ==
    /\ \E t \in Tasks : ~Blocked(t)
    /\ \A t \in Tasks : NextLock(t).kind = "take" => NextLock(t).m \notin HeldBy(t)
    /\ \A t \in Tasks : \A a \in HeldBy(t) : \A u \in Tasks \ {t} :
          \A b \in HeldBy(u) :
             ~(TakesWhileHolding(t, a, b) /\ TakesWhileHolding(u, b, a))

\* the watcher holds the database and waits for the active sessions while
\* kill_all_processes, holding the Registry, waits for the database
NestedLocksContended ==
    /\ TakesWhileHolding("watch_exit", "database", "active_sessions")
    /\ TakesWhileHolding("kill_all_processes", "processes", "database")
    /\ Blocked("kill_all_processes")
    /\ Blocked("watch_exit")

\* C34: the finalization of an exited instance by its Exit Watcher never
\* affects a newer instance of the same project: when the watcher finishes
\* while a Registry entry whose spawn has completed exists, the ProcessInfo
\* is still Running with the pid of that entry and the active-session
\* mapping still holds its session id.
FinalizeSparesNewerInstance ==
    [][\A k \in Ids :
          LET p == watcher[k].proj
              new == processes[p].inst
          IN (Finalizes(k) /\ AlreadyRunning(p) /\ call[new].pc = "done") =>
                /\ infos'[p] = [status |-> "Running", pid |-> new]
                /\ active'[p] = new]_vars

\* a spawn_process call of an Exit Watcher's auto-restart that
\* graceful_shutdown_all did not find in the Registry when it took its
\* snapshot
RespawnedDuringShutdown(i) ==
    /\ call[i].origin = "auto"
    /\ \A s \in sd'.snap : s.inst # i

\* C35: if an Exit Watcher's pending auto-restart fires while
\* graceful_shutdown_all is running, then when graceful_shutdown_all returns
\* no process spawned by the engine is alive and no session is open.
ShutdownCoversRespawn ==
    [][(sd.pc # "returned" /\ sd'.pc = "returned"
        /\ \E i \in Ids : RespawnedDuringShutdown(i))
       => \A i \in Ids : proc'[i] # "running" /\ sess'[i].st # "open"]_vars

\* C36: after kill_all_processes or graceful_shutdown_all has completed (and
\* the Exit Watchers of the removed entries have run to their end), no
\* ProcessInfo has status Running or a pid.
BulkShutdownClearsInfos ==
    (/\ sd.pc \in {"returned", "exited"}
     /\ \A k \in Ids : watcher[k].pc \in {"none", "end"}
     /\ \A p \in Projects : ~AlreadyRunning(p))
    => \A p \in Projects : infos[p].status # "Running" /\ infos[p].pid = NoInst

\* restart_process has stopped instance i of project p and its background
\* task has not called spawn_process yet
RestartPending(p, i) ==
    /\ restarts[p] >= 0
    /\ i # NoInst
    /\ processes[p].inst = i
    /\ processes[p].gStop

\* C37: restart_process on a running project eventually results in a new
\* Running instance of that project, also when the old process ignores the
\* graceful signal and dies only through the force-kill.
RestartEventuallyRunning ==
    \A p \in Projects : \A i \in Ids :
        RestartPending(p, i) ~>
            \E j \in Ids : /\ j > i
                           /\ processes[p].inst = j
                           /\ infos[p] = [status |-> "Running", pid |-> j]

\* C38: the force-kill that stop_process schedules only ever hits the
\* instance that was stopped: when that instance has already exited as the
\* timer fires, the force-kill terminates no process, also when the
\* operating system has reused the pid.
ForceKillHitsOnlyItsInstance ==
    [][\A t \in ospid.tasks :
          (t \notin ospid'.tasks /\ ospid.st[t.inst] # "running") =>
             ospid'.st = ospid.st]_vars

\* C39: a remove_pid running concurrently with a save_pid for a newly
\* spawned process never loses the saved pid: when the remove_pid completes
\* the ledger holds what it held just before, the saved pid included,
\* without the removed pid.
RemoveKeepsSavedPids ==
    [][(rmpid.pc = "write" /\ rmpid'.pc = "idle") =>
          StoredPids' = StoredPids \ {rmpid.pid}]_vars

\* C40: if the project is no longer present in the stored configuration
\* when the auto-restart debounce expires, the Exit Watcher does not
\* re-spawn it.
DeletedProjectNotRespawned ==
    [][\A k \in Ids :
          (/\ watcher[k].pc = "debounce"
           /\ watcher'[k].pc # "debounce"
           /\ ~config[watcher[k].proj].exists)
          => watcher'[k].pc \notin {"runcheck", "spawn"}]_vars

====
